---- MODULE Spec2Model ----
(***************************************************************************)
(* Console Samurai: the host log store / transport server of               *)
(* src/extension.js and the transport client of the node and browser       *)
(* runtimes (src/unnamed/part_000, src/unnamed/part_001; their transport   *)
(* code is the same, line for line).                                       *)
(*                                                                         *)
(* Conventions: a JavaScript string is a TLA+ string, with "" for every    *)
(* falsy string (null, undefined, ''); a path or URL is a sequence of      *)
(* tokens, with << >> for a falsy one; a number that the code only reads   *)
(* through `x || d` is an integer, with 0 for every falsy value.           *)
(***************************************************************************)
EXTENDS Integers, Sequences, FiniteSets, TLC

\* ------------------------------------------------------------------ bounds
MaxLogSeq == 3
MaxClientSeq == 2
MaxCapacity == 2
MaxSockets == 4
MaxClientSockets == 3
MaxLinkSockets == 2
MaxHookSockets == 2
MaxEvents == 2
MaxNodes == 2
MaxDepth == 2
MaxStringLen == 3
MaxArrayLen == 3
MaxLineCount == 2
MaxInlineLogs == 2
MaxInlineSessions == 1
MaxMappings == 2
MaxTimerCalls == 3
MaxConfigFrames == 3

\* --------------------------------------------------------------- constants
LEVELS == {"log", "info", "warn", "error", "debug", "trace", "time", "network"}

VARIABLES
  \* host: `state` of src/extension.js
  server,          \* state.server: TRUE while a WebSocket.Server is held
  clients,         \* state.clients: session id -> [info]
  clientSeq,       \* state.clientSeq
  logs,            \* state.logs
  logSeq,          \* state.logSeq
  maxLogEntries,   \* state.maxLogEntries
  inlineEnabled,   \* state.inlineEnabled
  lineStateByUri,  \* state.lineStateByUri: <<uri, line>> -> [entry, count]
  config,          \* state.config
  \* host environment
  sockets,         \* accepted server-side sockets whose handlers can still fire
  outbox,          \* per session, the frames the server has sent on its socket
  decorations,     \* per visible editor, the decorations last set on it
  webviewPanel,    \* state.webviewPanel: TRUE while the viewer panel is open
  viewerLogs,      \* state.logs of the viewer (src/media/viewer.js)
  \* history of the host, read by the properties only
  idLog,           \* every id addLogEntry has assigned, in order
  sessionLog,      \* every session id the connection handler has assigned
  restarts,        \* whether stopServer has closed a server, and how many
                   \* sessions had been accepted by then
  ingested,        \* entries pushed since the store was last empty by clear/start
  capacityStable   \* maxLogEntries has not changed since `ingested` was reset

VARIABLES
  \* client: `state` of src/unnamed/part_000 (node) and part_001 (browser)
  ws,              \* state.ws: the socket held, 0 for null
  queue,           \* state.queue
  connected,       \* state.connected
  installed,       \* state.installed
  captureConsole,  \* state.config.captureConsole
  \* client environment
  readyState,      \* readyState of every socket the client has created
  wire,            \* per socket, the payloads handed to its send()
  retryTimers,     \* reconnect timers set by retryConnect and not yet fired
  wrapLayers,      \* capture wrappers stacked on each console method
  pc,              \* "flush" while an open handler is inside flushQueue
  events,          \* events captured so far (each gets the next number)
  \* history of the client, read by the properties only
  stopped,         \* stop() was called and start() has not been since
  burst,           \* close events, timers fired and connections they made,
                   \* since the last start(), stop() or earlier burst
  queueAtOpen,     \* per socket, state.queue when its open handler began
  lastCall         \* payloads produced by the latest console call

VARIABLES
  \* the connections between the modelled client and the server
  peer,            \* per client socket, the session id the server gave it, or 0
  delivered        \* per client socket, how many of its frames the server has read

VARIABLES
  \* the latest observed host handler and what it did, read by the properties
  lastOp

VARIABLES
  \* the serializer of the client at work on one value
  heap,            \* the arrays and plain objects of the program, by identity
  input,           \* the value handed to serializeValue
  captureOptions,  \* state.config.logCaptureOptions
  output           \* what serializeValue returned, once it has

linkVars == <<peer, delivered>>

VARIABLES
  \* the environment of the source correlator, and one call of it
  disk,              \* fs.existsSync: the files on disk
  workspaceFolders,  \* vscode.workspace.workspaceFolders, as fsPaths
  location,          \* entry.file of the entry handed to resolveEntryPath
  mappingList,       \* state.config.pathMappings during the call
  resolution         \* what resolveEntryPath returned, once it has

VARIABLES
  \* the capture hooks of the client
  timers,            \* state.timers: the labels that have a start time
  clientConfig,      \* state.config, but for captureConsole
  \* history of the hooks, read by the properties only
  lastHook,          \* the latest call through a hook and what came of it
  hookLog            \* the calls of console.time, timeLog and timeEnd, in order

serializerVars == <<heap, input, captureOptions, output>>

correlatorVars == <<disk, workspaceFolders, location, mappingList, resolution>>

captureVars == <<timers, clientConfig, lastHook, hookLog>>

auditVars == <<lastOp>>

clientVars == <<ws, queue, connected, installed, captureConsole, readyState,
                wire, retryTimers, wrapLayers, pc, events,
                stopped, burst, queueAtOpen, lastCall>>

storeVars == <<logs, logSeq, lineStateByUri, idLog, ingested, capacityStable>>
sessionVars == <<server, clients, clientSeq, sockets, outbox, sessionLog, restarts>>
settingVars == <<maxLogEntries, inlineEnabled, config>>
displayVars == <<decorations, webviewPanel, viewerLogs>>
hostVars == <<storeVars, sessionVars, settingVars, displayVars>>

vars == <<hostVars, clientVars, linkVars, auditVars, serializerVars, correlatorVars, captureVars>>

\* ------------------------------------------------------- paths and the disk
StartsWith(s, p) == Len(p) <= Len(s) /\ SubSeq(s, 1, Len(p)) = p

DropFirst(s, n) == SubSeq(s, n + 1, Len(s))

Schemes == {"file://", "http://"}

\* /^[a-zA-Z]+:\/\//.test(raw)
HasScheme(raw) == Len(raw) > 0 /\ raw[1] \in Schemes

\* path.isAbsolute
isAbsolute(p) == Len(p) > 0 /\ p[1] = "/"

\* decodeURIComponent, token by token
decodeToken(t) == IF t = "a%20b.js" THEN "a b.js" ELSE t

decodeURIComponent(s) == [i \in 1..Len(s) |-> decodeToken(s[i])]

\* path.join(root, rel): one separator between the two, none doubled
pathJoin(root, rel) ==
  IF Len(rel) = 0 THEN root
  ELSE IF rel[1] = "/" THEN root \o rel
  ELSE root \o <<"/">> \o rel

\* the files and directories on disk while the host runs
Disk == { <<"/", "repo">>, <<"/", "lib">>,
          <<"/", "repo", "/", "a.js">>,
          <<"/", "lib", "/", "a.js">>,
          <<"/", "lib", "/", "b.js">>,
          <<"/", "repo", "/", "a b.js">> }

\* an existence check that always succeeds
existsAlways(p) == TRUE

\* fs.existsSync
existsSync(p) == p \in disk

\* the first workspace folder under which rel exists, joined; << >> if none
RECURSIVE firstUnderFolder(_, _)
firstUnderFolder(rel, i) ==
  IF i > Len(workspaceFolders) THEN << >>
  ELSE IF existsSync(pathJoin(workspaceFolders[i], rel))
       THEN pathJoin(workspaceFolders[i], rel)
       ELSE firstUnderFolder(rel, i + 1)

\* new URL(urlString).pathname: what follows the scheme and the host
urlPathname(u) ==
  LET rest == DropFirst(u, 1)
      path == IF Len(rest) > 0 /\ rest[1] # "/" THEN DropFirst(rest, 1) ELSE rest
  IN  IF Len(path) = 0 /\ u[1] = "http://" THEN <<"/">> ELSE path

RECURSIVE mapWithMappings(_, _, _)
mapWithMappings(urlString, mappings, i) ==
  IF i > Len(mappings) THEN << >>
  ELSE
    LET m == mappings[i]
        valid == Len(m.urlPrefix) > 0 /\ Len(m.localPathPrefix) > 0
        replaced == m.localPathPrefix \o DropFirst(urlString, Len(m.urlPrefix))
        found == IF ~isAbsolute(replaced) THEN firstUnderFolder(replaced, 1)
                 ELSE IF existsSync(replaced) THEN replaced ELSE << >>
    IN  IF valid /\ StartsWith(urlString, m.urlPrefix) /\ found # << >>
        THEN found
        ELSE mapWithMappings(urlString, mappings, i + 1)

mapUrlToPath(urlString, mappings) ==
  LET mapped == mapWithMappings(urlString, mappings, 1)
      urlPath == decodeURIComponent(urlPathname(urlString))
      normalizedPath == IF isAbsolute(urlPath) THEN DropFirst(urlPath, 1) ELSE urlPath
  IN  IF mapped # << >> THEN mapped
      ELSE IF ~HasScheme(urlString) THEN << >>
      ELSE IF Len(urlPath) = 0 THEN << >>
      ELSE firstUnderFolder(normalizedPath, 1)

resolveEntryPath(entry, mappings) ==
  LET raw == entry.file
      fsPath == decodeURIComponent(DropFirst(raw, 1))
      mapped == mapUrlToPath(raw, mappings)
  IN  IF raw = << >> THEN << >>
      ELSE IF StartsWith(raw, <<"file://">>) /\ existsSync(fsPath) THEN fsPath
      ELSE IF HasScheme(raw) /\ mapped # << >> THEN mapped
      ELSE IF isAbsolute(raw) /\ existsSync(raw) THEN raw
      ELSE IF ~isAbsolute(raw) THEN firstUnderFolder(raw, 1)
      ELSE << >>

\* resolveEntryPath has not returned
NotYet == <<"?">>

\* one call of resolveEntryPath(entry)
resolveCall ==
  /\ resolution = NotYet
  /\ resolution' = resolveEntryPath([file |-> location], mappingList)
  /\ UNCHANGED <<disk, workspaceFolders, location, mappingList>>

\* the correlator as the host runs it: two workspace folders, the files on disk
CorrelatorIdle ==
  /\ disk = Disk
  /\ workspaceFolders = << <<"/", "repo">>, <<"/", "lib">> >>
  /\ location = << >>
  /\ mappingList = << >>
  /\ resolution = NotYet

\* the workspace folders: none, one, or two in either order
FolderLists ==
  LET Roots == { <<"/", "repo">>, <<"/", "lib">> }
  IN  {<< >>} \cup { <<r>> : r \in Roots }
        \cup { l \in { <<r, q>> : r \in Roots, q \in Roots } : l[1] # l[2] }

\* the files that may or may not be on disk
Files ==
  { <<"/", "repo", "/", "a.js">>, <<"/", "lib", "/", "a.js">>,
    <<"/", "lib", "/", "b.js">>, <<"/", "repo", "/", "sub", "/", "b.js">>,
    <<"/", "app", "/", "a.js">> }

\* mappings: to an absolute prefix, to one that holds no file, to a relative
\* prefix, from a prefix without a scheme, and one without a urlPrefix
Mappings ==
  { [urlPrefix |-> <<"http://", "localhost">>, localPathPrefix |-> <<"/", "lib">>],
    [urlPrefix |-> <<"http://", "localhost">>, localPathPrefix |-> <<"/", "gone">>],
    [urlPrefix |-> <<"http://", "localhost">>, localPathPrefix |-> <<"sub">>],
    [urlPrefix |-> <<"/", "app">>, localPathPrefix |-> <<"/", "repo">>],
    [urlPrefix |-> << >>, localPathPrefix |-> <<"/", "lib">>] }

\* the lists of at most n mappings
RECURSIVE MappingLists(_)
MappingLists(n) ==
  IF n = 0 THEN {<< >>}
  ELSE MappingLists(n - 1) \cup
         { Append(l, m) : l \in { x \in MappingLists(n - 1) : Len(x) = n - 1 },
                          m \in Mappings }

\* entry.file: absent, a file URI, a URL, an absolute path that is a file, an
\* absolute path under a mapped prefix, and relative paths
Locations ==
  { << >>,
    <<"file://", "/", "repo", "/", "a.js">>,
    <<"http://", "localhost", "/", "b.js">>,
    <<"/", "repo", "/", "a.js">>,
    <<"/", "app", "/", "a.js">>,
    <<"a.js">>, <<"b.js">> }

\* the correlator given a location, the mappings, the folders and the disk
CorrelatorInit ==
  /\ disk \in SUBSET Files
  /\ workspaceFolders \in FolderLists
  /\ location \in Locations
  /\ mappingList \in MappingLists(MaxMappings)
  /\ resolution = NotYet

ResolveNext ==
  resolveCall
    /\ UNCHANGED <<hostVars, clientVars, linkVars, auditVars, serializerVars, captureVars>>

\* ------------------------------------------------------------ wire messages
\* A frame received by the server, after JSON.parse: parse = "error" when
\* JSON.parse throws, "value" when it yields a non-object (null, 42, "x"),
\* "object" otherwise; the other fields are the object's, falsy when absent.
Frame(parse, type, level, kind, text, file, line, runtime) ==
  [parse |-> parse, type |-> type, level |-> level, kind |-> kind,
   text |-> text, file |-> file, line |-> line, runtime |-> runtime]

LogFrame(level, kind, text, file, line) ==
  Frame("object", "log", level, kind, text, file, line, "")

HelloFrame(runtime) == Frame("object", "hello", "", "", 0, << >>, 0, runtime)

MalformedFrames ==
  { Frame("error", "", "", "", 0, << >>, 0, ""),
    Frame("value", "", "", "", 0, << >>, 0, ""),
    Frame("object", "", "warn", "", 1, << >>, 0, ""),
    Frame("object", "ping", "warn", "", 1, << >>, 0, "") }

\* log frames sent by runtimes other than the modelled client
ForeignLogFrames ==
  { LogFrame("warn", "", 1, <<"/", "repo", "/", "a.js">>, 1),
    LogFrame("verbose", "", 2, <<"gone.js">>, 2) }

ForeignFrames ==
  {Frame("error", "", "", "", 0, << >>, 0, "")} \cup ForeignLogFrames

\* ------------------------------------------------------------ host: config
\* DEFAULTS.logCaptureOptions
DefaultMaxDepth == 4
DefaultMaxProps == 50
DefaultMaxArray == 50
DefaultMaxStringLength == 2000

DefaultOptions ==
  [maxDepth |-> DefaultMaxDepth, maxProps |-> DefaultMaxProps,
   maxArray |-> DefaultMaxArray, maxStringLength |-> DefaultMaxStringLength]

Config(autoStart, port, cap, inline, levels) ==
  [autoStart |-> autoStart, port |-> port, maxLogEntries |-> cap,
   inlineEnabled |-> inline, enabledLevels |-> levels,
   networkEnabled |-> TRUE, captureErrors |-> TRUE,
   logCaptureOptions |-> DefaultOptions,
   pathMappings |-> << [urlPrefix |-> <<"http://", "localhost">>,
                        localPathPrefix |-> <<"/", "lib">>] >>]

Capacities == -1..MaxCapacity

LevelFilters == {LEVELS, LEVELS \ {"warn"}}

\* the configurations of the log store: the server settings stay as loaded
StoreConfigs == { Config(TRUE, 4973, cap, TRUE, LEVELS) : cap \in Capacities }

\* the configurations of the transport server
ServerConfigs ==
  { Config(autoStart, port, MaxCapacity, TRUE, LEVELS) :
      autoStart \in BOOLEAN, port \in {4973, 4974} }

\* --------------------------------------------------------- host: log store
\* a sanitizeLevel that keeps whatever it is given
sanitizeLevelKeeps(level) == level

sanitizeLevel(level) == IF level \in LEVELS THEN level ELSE "log"

\* a || b for strings
Or(a, b) == IF a # "" THEN a ELSE b

\* the entry addLogEntry builds; the fields it copies unread (values,
\* timestamp, column, stack, url, method, status, durationMs, label, source)
\* are left out
newEntry(payload, clientId, id) ==
  LET level == sanitizeLevel(Or(Or(payload.level, payload.kind), "log"))
  IN  [id |-> id, level |-> level,
       kind |-> Or(Or(payload.kind, payload.type), level),
       text |-> payload.text, file |-> payload.file, line |-> payload.line,
       clientId |-> clientId]

nextLogSeq(seq) == seq + 1

\* a trimLogs that keeps one entry too many
trimLogsKeepsOneMore(entries, max) ==
  IF Len(entries) <= max + 1 THEN entries
  ELSE SubSeq(entries, Len(entries) - max, Len(entries))

\* a trimLogs that removes from the end
trimLogsDropsNewest(entries, max) ==
  IF Len(entries) <= max THEN entries
  ELSE SubSeq(entries, 1, max)

\* state.logs after trimLogs, for state.maxLogEntries = max
trimLogs(entries, max) ==
  IF Len(entries) <= max THEN entries
  ELSE LET overflow == Len(entries) - max
       IN  SubSeq(entries, overflow + 1, Len(entries))

Max(a, b) == IF a >= b THEN a ELSE b

\* ------------------------------------------------------------ host: viewer
\* updateWebview(): an 'init' message with state.logs = stored, which the
\* viewer handles by starting its list again and appending every entry
updateWebview(stored) ==
  /\ viewerLogs' = IF webviewPanel THEN stored ELSE viewerLogs
  /\ UNCHANGED webviewPanel

\* updateWebview(entry): an 'append' message, which the viewer handles with
\* appendEntry(entry)
appendEntry(entry) ==
  /\ viewerLogs' = IF webviewPanel THEN Append(viewerLogs, entry) ELSE viewerLogs
  /\ UNCHANGED webviewPanel

\* no message is posted to the viewer
viewerKept == UNCHANGED <<webviewPanel, viewerLogs>>

\* ------------------------------------------------- host: inline annotations
\* vscode.window.visibleTextEditors, by the fsPath of their documents
visibleTextEditors == { <<"/", "repo", "/", "a.js">>, <<"/", "lib", "/", "b.js">> }

\* editor.document.lineCount, the same for every open document
lineCount(file) == MaxLineCount

\* formatInlineText(entry, count), as the pieces of the template string; the
\* texts are shorter than config.inlineMaxTextLength and
\* config.inlineShowTimestamp is off, as loaded by default
formatInlineText(entry, count) ==
  LET suffix == IF count > 1 THEN <<" (+", count - 1, ")">> ELSE << >>
  IN  <<" ", entry.text>> \o suffix

\* a filter that lets every level through
levelAlwaysShown(entry, levels) == TRUE

\* state.config.enabledLevels.includes(entry.level)
levelShown(entry, levels) == entry.level \in levels

\* the decorations refreshInlineForEditor sets on the editor of `file`
refreshInlineForEditor(file, lineState, enabled, levels) ==
  IF ~enabled THEN {}
  ELSE { [line |-> k[2], level |-> lineState[k].entry.level,
          contentText |-> formatInlineText(lineState[k].entry, lineState[k].count)] :
           k \in { x \in DOMAIN lineState :
                      /\ x[1] = file
                      /\ levelShown(lineState[x].entry, levels)
                      /\ x[2] < lineCount(file) } }

\* the decorations of every visible editor after refreshInlineAll
refreshInlineAll(lineState, enabled, levels) ==
  [file \in visibleTextEditors |->
     refreshInlineForEditor(file, lineState, enabled, levels)]

\* an updateInlineForEntry that records an entry it could not place
neverUnresolved(resolvedPath) == FALSE

\* !resolvedPath
unresolved(resolvedPath) == resolvedPath = << >>

\* the line of the entry, zero-based
lineOf(entry) == Max(0, (IF entry.line # 0 THEN entry.line ELSE 1) - 1)

\* a count that starts again with every entry
countRestarts(lineState, key) == 1

\* existing ? existing.count + 1 : 1
countAfter(lineState, key) ==
  IF key \in DOMAIN lineState THEN lineState[key].count + 1 ELSE 1

\* an updateInlineForEntry that forgets every other line
updateInlineAlone(lineState, entry, mappings) ==
  LET resolvedPath == resolveEntryPath(entry, mappings)
  IN  IF unresolved(resolvedPath) THEN lineState
      ELSE [k \in {<<resolvedPath, lineOf(entry)>>} |->
              [entry |-> entry, count |-> countAfter(lineState, k)]]

\* state.lineStateByUri after updateInlineForEntry(entry)
updateInlineForEntry(lineState, entry, mappings) ==
  LET resolvedPath == resolveEntryPath(entry, mappings)
      line == lineOf(entry)
      key == <<resolvedPath, line>>
      count == countAfter(lineState, key)
  IN  IF unresolved(resolvedPath) THEN lineState
      ELSE [k \in DOMAIN lineState \cup {key} |->
              IF k = key THEN [entry |-> entry, count |-> count]
              ELSE lineState[k]]

\* the decorations after updateInlineForEntry(entry), which refreshes the
\* visible editors of the entry's file and no other
editorsAfterUpdate(shown, lineState, entry, enabled, levels, mappings) ==
  LET resolvedPath == resolveEntryPath(entry, mappings)
  IN  IF unresolved(resolvedPath) THEN shown
      ELSE [file \in visibleTextEditors |->
              IF file = resolvedPath
              THEN refreshInlineForEditor(file, lineState, enabled, levels)
              ELSE shown[file]]

addLogEntry(payload, clientId) ==
  LET entry == newEntry(payload, clientId, nextLogSeq(logSeq))
  IN  /\ logSeq' = entry.id
      /\ logs' = trimLogs(Append(logs, entry), maxLogEntries)
      /\ lineStateByUri' =
           IF entry.level \in config.enabledLevels /\ inlineEnabled
           THEN updateInlineForEntry(lineStateByUri, entry, config.pathMappings)
           ELSE lineStateByUri
      /\ decorations' =
           IF entry.level \in config.enabledLevels /\ inlineEnabled
           THEN editorsAfterUpdate(decorations, lineStateByUri', entry,
                                   inlineEnabled, config.enabledLevels,
                                   config.pathMappings)
           ELSE decorations
      /\ idLog' = Append(idLog, entry.id)
      /\ ingested' = Append(ingested, entry)
      /\ appendEntry(entry)
      /\ UNCHANGED capacityStable

\* a clearLogs that keeps the line states
lineStateKept(lineState) == lineState

\* state.lineStateByUri after state.lineStateByUri.clear()
lineStateAfterClear(lineState) == << >>

\* a clearLogs that restarts the ids
seqResetOnClear(seq) == 0

\* state.logSeq after clearLogs
seqAfterClear(seq) == seq

clearLogs ==
  /\ logs' = << >>
  /\ lineStateByUri' = lineStateAfterClear(lineStateByUri)
  /\ logSeq' = seqAfterClear(logSeq)
  /\ ingested' = << >>
  /\ capacityStable' = TRUE
  /\ decorations' = refreshInlineAll(lineStateByUri', inlineEnabled,
                                      config.enabledLevels)
  /\ updateWebview(logs')
  /\ UNCHANGED <<idLog, sessionVars, settingVars>>

toggleInline ==
  /\ inlineEnabled' = ~inlineEnabled
  /\ decorations' = refreshInlineAll(lineStateByUri, inlineEnabled',
                                      config.enabledLevels)
  /\ viewerKept
  /\ UNCHANGED <<maxLogEntries, config, storeVars, sessionVars>>

\* ---------------------------------------------------- host: transport server
\* startServer; ok = FALSE when the WebSocket.Server constructor throws
startServer(ok) ==
  /\ server' = IF server THEN TRUE ELSE ok
  /\ UNCHANGED <<clients, clientSeq, sockets, sessionLog, restarts, outbox, storeVars,
                 settingVars, displayVars>>

\* a stopServer that restarts the session ids
seqResetOnStop(seq) == 0

\* state.clientSeq after stopServer
seqAfterStop(seq) == seq

\* stopServer, also run on the server's 'error' event
stopServer ==
  /\ server' = FALSE
  /\ clients' = IF server THEN << >> ELSE clients
  /\ clientSeq' = IF server THEN seqAfterStop(clientSeq) ELSE clientSeq
  /\ restarts' = IF server THEN [stopped |-> TRUE, sessions |-> clientSeq]
                 ELSE restarts
  /\ IF server THEN updateWebview(logs) ELSE viewerKept
  /\ UNCHANGED <<sockets, sessionLog, outbox, storeVars, settingVars, decorations>>

nextClientSeq(seq) == seq + 1

\* the config of sendConfigToClient, for state.config = cfg
configPayload(cfg) ==
  [networkEnabled |-> cfg.networkEnabled, captureErrors |-> cfg.captureErrors,
   logCaptureOptions |-> cfg.logCaptureOptions]

\* the frame of sendConfigToClient, for state.config = cfg
configFrame(cfg) == [type |-> "config", config |-> configPayload(cfg)]

\* the frame of sendConfigToClient
ConfigFrame == configFrame(config)

\* a sendConfigToClient that does not look at the socket
sendConfigAlways(sent, ready, cfg) == Append(sent, configFrame(cfg))

\* the frames sent on a socket after sendConfigToClient(ws); sent holds the
\* frames sent before, ready is ws.readyState
sendConfigToClient(sent, ready, cfg) ==
  IF ready # "OPEN" THEN sent ELSE Append(sent, configFrame(cfg))

\* the frames sent after broadcastConfig: one sendConfigToClient for every
\* value of state.clients
broadcastConfig(box, sessions, cfg) ==
  [c \in DOMAIN box |->
     IF c \in DOMAIN sessions
     THEN sendConfigToClient(box[c], sessions[c].ws, cfg)
     ELSE box[c]]

\* the test of handleConfigChange before broadcastConfig
broadcasts(prev, next) ==
  \/ prev.networkEnabled # next.networkEnabled
  \/ prev.captureErrors # next.captureErrors
  \/ prev.logCaptureOptions # next.logCaptureOptions

\* toggleNetwork; the configuration event that follows finds state.config as
\* toggleNetwork left it
toggleNetwork ==
  /\ config' = [config EXCEPT !.networkEnabled = ~config.networkEnabled]
  /\ outbox' = broadcastConfig(outbox, clients, config')
  /\ updateWebview(logs)
  /\ UNCHANGED <<server, clients, clientSeq, sockets, sessionLog, restarts,
                 maxLogEntries, inlineEnabled, storeVars, decorations>>

\* wss.on('connection')
connection ==
  /\ server
  /\ clientSeq < MaxClientSeq
  /\ LET clientId == nextClientSeq(clientSeq)
     IN  /\ clientSeq' = clientId
         /\ clients' = [c \in DOMAIN clients \cup {clientId} |->
                          IF c = clientId
                          THEN [ws |-> "OPEN", remote |-> "127.0.0.1",
                                runtime |-> ""]
                          ELSE clients[c]]
         /\ sockets' = sockets \cup {clientId}
         /\ sessionLog' = Append(sessionLog, clientId)
         /\ outbox' = [c \in DOMAIN outbox \cup {clientId} |->
                         IF c = clientId
                         THEN sendConfigToClient(<< >>, "OPEN", config)
                         ELSE outbox[c]]
  /\ updateWebview(logs)
  /\ UNCHANGED <<server, restarts, storeVars, settingVars, decorations>>

\* the socket of a session leaves the OPEN state (the peer closes it or the
\* connection is lost); its 'close' event has not been dispatched yet
socketClosing(clientId) ==
  /\ clientId \in sockets
  /\ clientId \in DOMAIN clients
  /\ clients[clientId].ws = "OPEN"
  /\ \E next \in {"CLOSING", "CLOSED"} :
        clients' = [clients EXCEPT ![clientId].ws = next]
  /\ UNCHANGED <<server, clientSeq, sockets, sessionLog, restarts, outbox,
                 storeVars, settingVars, displayVars>>

\* a handler that leaves the session in the map
keepSession(clientId) == clients

dropSession(clientId) == [c \in DOMAIN clients \ {clientId} |-> clients[c]]

\* ws.on('close'): the socket's last event
socketClose(clientId) ==
  /\ clientId \in sockets
  /\ clients' = dropSession(clientId)
  /\ sockets' = sockets \ {clientId}
  /\ updateWebview(logs)
  /\ UNCHANGED <<server, clientSeq, sessionLog, restarts, outbox, storeVars,
               settingVars, decorations>>

\* ws.on('error'); the socket's 'close' follows
socketError(clientId) ==
  /\ clientId \in sockets
  /\ clientId \in DOMAIN clients
  /\ clients' = dropSession(clientId)
  /\ updateWebview(logs)
  /\ UNCHANGED <<server, clientSeq, sockets, sessionLog, restarts, outbox, storeVars,
                 settingVars, decorations>>

\* a dispatch that ingests whatever is not a hello
isNotHello(message) == TRUE

\* message.type === 'log'
isLog(message) == message.type = "log"

\* handleClientMessage(clientId, data)
handleClientMessage(clientId, message) ==
  IF message.parse # "object"
  THEN UNCHANGED hostVars
  ELSE IF message.type = "hello"
  THEN /\ clients' = IF clientId \in DOMAIN clients
                     THEN [clients EXCEPT ![clientId].runtime =
                                            Or(message.runtime, @)]
                     ELSE clients
       /\ IF clientId \in DOMAIN clients THEN updateWebview(logs)
          ELSE viewerKept
       /\ UNCHANGED <<server, clientSeq, sockets, sessionLog, restarts, outbox, storeVars,
                      settingVars, decorations>>
  ELSE IF isLog(message)
  THEN /\ logSeq < MaxLogSeq
       /\ addLogEntry(message, clientId)
       /\ UNCHANGED <<sessionVars, settingVars>>
  ELSE UNCHANGED hostVars

\* ws.on('message') for a frame of a runtime other than the modelled client
foreignMessage(clientId, message) ==
  /\ clientId \in sockets
  /\ handleClientMessage(clientId, message)

\* the parts of the host state that the step changes
Touched ==
  (IF logs' # logs THEN {"logs"} ELSE {})
    \cup (IF logSeq' # logSeq THEN {"logSeq"} ELSE {})
    \cup (IF clients' # clients THEN {"clients"} ELSE {})
    \cup (IF lineStateByUri' # lineStateByUri THEN {"lineStateByUri"} ELSE {})
    \cup (IF outbox' # outbox THEN {"outbox"} ELSE {})
    \cup (IF decorations' # decorations THEN {"decorations"} ELSE {})

\* ws.on('message'), with what the handler did written down
observedMessage(clientId, message) ==
  /\ foreignMessage(clientId, message)
  /\ lastOp' = [op |-> "message", clientId |-> clientId,
                parse |-> message.parse, type |-> message.type,
                touched |-> Touched]

\* ws.on('close'), with what the handler did written down
observedClose(clientId) ==
  /\ socketClose(clientId)
  /\ lastOp' = [op |-> "close", clientId |-> clientId, touched |-> Touched]

\* ws.on('error'), with what the handler did written down
observedError(clientId) ==
  /\ socketError(clientId)
  /\ lastOp' = [op |-> "error", clientId |-> clientId, touched |-> Touched]

\* onDidChangeConfiguration: loadConfig, then handleConfigChange(prev, next)
configChange(next) ==
  LET prev == config
      serverChanged == prev.port # next.port
      restart == serverChanged /\ server
      server1 == IF restart THEN next.autoStart ELSE server
      server2 == IF ~server1 /\ next.autoStart /\ ~prev.autoStart THEN TRUE ELSE server1
  IN  /\ next # prev
      /\ config' = next
      /\ inlineEnabled' = next.inlineEnabled
      /\ maxLogEntries' = next.maxLogEntries
      /\ server' = server2
      /\ clients' = IF restart THEN << >> ELSE clients
      /\ clientSeq' = IF restart THEN seqAfterStop(clientSeq) ELSE clientSeq
      /\ restarts' = IF restart THEN [stopped |-> TRUE, sessions |-> clientSeq]
                     ELSE restarts
      /\ logs' = IF prev.maxLogEntries # next.maxLogEntries
                 THEN trimLogs(logs, next.maxLogEntries) ELSE logs
      /\ capacityStable' = IF prev.maxLogEntries # next.maxLogEntries
                           THEN ingested = << >> ELSE capacityStable
      /\ decorations' =
           IF \/ prev.inlineEnabled # next.inlineEnabled
              \/ prev.enabledLevels # next.enabledLevels
           THEN refreshInlineAll(lineStateByUri, inlineEnabled', next.enabledLevels)
           ELSE decorations
      /\ outbox' = IF broadcasts(prev, next)
                   THEN broadcastConfig(outbox, clients', next) ELSE outbox
      /\ IF prev.enabledLevels # next.enabledLevels THEN updateWebview(logs')
         ELSE IF restart THEN updateWebview(logs)
         ELSE viewerKept
      /\ UNCHANGED <<logSeq, lineStateByUri, sockets, idLog, sessionLog,
                     ingested>>

HostInit ==
  /\ config = Config(TRUE, 4973, MaxCapacity, TRUE, LEVELS)
  /\ server = config.autoStart
  /\ clients = << >>
  /\ clientSeq = 0
  /\ logs = << >>
  /\ logSeq = 0
  /\ maxLogEntries = config.maxLogEntries
  /\ inlineEnabled = config.inlineEnabled
  /\ lineStateByUri = << >>
  /\ sockets = {}
  /\ outbox = << >>
  /\ decorations = [file \in visibleTextEditors |-> {}]
  /\ webviewPanel = FALSE
  /\ viewerLogs = << >>
  /\ idLog = << >>
  /\ sessionLog = << >>
  /\ restarts = [stopped |-> FALSE, sessions |-> 0]
  /\ ingested = << >>
  /\ capacityStable = TRUE

\* the log store under sessions that come and go
StoreNext ==
  \/ connection /\ UNCHANGED <<clientVars, linkVars, auditVars, serializerVars, correlatorVars, captureVars>>
  \/ \E c \in sockets : socketClose(c) /\ UNCHANGED <<clientVars, linkVars, auditVars, serializerVars, correlatorVars, captureVars>>
  \/ \E c \in sockets, m \in ForeignFrames :
        foreignMessage(c, m) /\ UNCHANGED <<clientVars, linkVars, auditVars, serializerVars, correlatorVars, captureVars>>
  \/ clearLogs /\ UNCHANGED <<clientVars, linkVars, auditVars, serializerVars, correlatorVars, captureVars>>
  \/ \E next \in StoreConfigs :
        configChange(next) /\ UNCHANGED <<clientVars, linkVars, auditVars, serializerVars, correlatorVars, captureVars>>

\* the frames of the sessions: malformed ones, a hello and a log
SessionFrames ==
  MalformedFrames \cup {HelloFrame("node"),
                        LogFrame("warn", "", 1, <<"/", "repo", "/", "a.js">>, 1)}

\* sessions that send, fail and go, handler by handler
SessionsNext ==
  \/ connection /\ UNCHANGED <<clientVars, linkVars, auditVars, serializerVars, correlatorVars, captureVars>>
  \/ \E c \in sockets : observedClose(c) /\ UNCHANGED <<clientVars, linkVars, serializerVars, correlatorVars, captureVars>>
  \/ \E c \in sockets : observedError(c) /\ UNCHANGED <<clientVars, linkVars, serializerVars, correlatorVars, captureVars>>
  \/ \E c \in sockets, m \in SessionFrames :
        observedMessage(c, m) /\ UNCHANGED <<clientVars, linkVars, serializerVars, correlatorVars, captureVars>>

\* log frames for the inline annotations: two levels on one line of a file,
\* a frame without a line, a mapped URL with a line past the end of the
\* document, a file that is not on disk and a frame without a file
InlineFrames ==
  { LogFrame("warn", "", 1, <<"/", "repo", "/", "a.js">>, 1),
    LogFrame("error", "", 2, <<"/", "repo", "/", "a.js">>, 1),
    LogFrame("warn", "", 3, <<"a.js">>, 0),
    LogFrame("info", "", 4, <<"http://", "localhost", "/", "b.js">>, 9),
    LogFrame("warn", "", 5, <<"gone.js">>, 2),
    LogFrame("error", "", 6, << >>, 0) }

\* the configurations of the inline annotations
InlineConfigs ==
  { Config(TRUE, 4973, MaxCapacity, inline, levels) :
      inline \in BOOLEAN, levels \in LevelFilters }

\* the count held for a key of state.lineStateByUri, 0 when there is none
countAt(lineState, key) ==
  IF key \in DOMAIN lineState THEN lineState[key].count ELSE 0

\* ws.on('message') for a log frame, with what addLogEntry did written down
observedLog(clientId, message) ==
  /\ foreignMessage(clientId, message)
  /\ LET entry == newEntry(message, clientId, nextLogSeq(logSeq))
         resolved == resolveEntryPath(entry, config.pathMappings)
         key == <<resolved, lineOf(entry)>>
     IN  lastOp' = [op |-> "log", entry |-> entry, resolved |-> resolved,
                    line |-> lineOf(entry),
                    enabled |-> entry.level \in config.enabledLevels,
                    inline |-> inlineEnabled,
                    before |-> countAt(lineStateByUri, key),
                    after |-> countAt(lineStateByUri', key),
                    held |-> /\ key \in DOMAIN lineStateByUri'
                             /\ lineStateByUri'[key].entry = entry,
                    stored |-> /\ Len(logs') > 0
                               /\ logs'[Len(logs')] = entry,
                    fresh |-> \A i \in 1..Len(idLog) : idLog[i] # entry.id,
                    follows |-> IF lastOp.op = "clear" THEN lastOp
                                ELSE [op |-> lastOp.op],
                    touched |-> Touched]

\* the inline annotations under logs, clears and changes of the settings
InlineNext ==
  \/ clientSeq < MaxInlineSessions /\ connection
       /\ lastOp' = [op |-> "connection"]
       /\ UNCHANGED <<clientVars, linkVars, serializerVars, correlatorVars, captureVars>>
  \/ \E c \in sockets, m \in InlineFrames :
        /\ logSeq < MaxInlineLogs
        /\ observedLog(c, m)
        /\ UNCHANGED <<clientVars, linkVars, serializerVars, correlatorVars, captureVars>>
  \/ clearLogs /\ lastOp' = [op |-> "clear", discarded |-> lineStateByUri]
       /\ UNCHANGED <<clientVars, linkVars, serializerVars, correlatorVars, captureVars>>
  \/ toggleInline /\ lastOp' = [op |-> "toggle"]
       /\ UNCHANGED <<clientVars, linkVars, serializerVars, correlatorVars, captureVars>>
  \/ \E next \in InlineConfigs :
        /\ configChange(next)
        /\ lastOp' = [op |-> "config", levels |-> config.enabledLevels,
                       shown |-> decorations]
        /\ UNCHANGED <<clientVars, linkVars, serializerVars, correlatorVars, captureVars>>

\* log frames for the level and the kind of an entry: levels of the
\* enumeration, a level outside it, no level with a kind of the enumeration,
\* no level with a kind outside it, neither, and a level with a kind
LevelFrames ==
  { LogFrame("log", "", 1, << >>, 0),
    LogFrame("warn", "", 1, << >>, 0),
    LogFrame("verbose", "", 1, << >>, 0),
    LogFrame("", "network", 1, << >>, 0),
    LogFrame("", "table", 1, << >>, 0),
    LogFrame("", "", 1, << >>, 0),
    LogFrame("error", "assert", 1, << >>, 0) }

\* ws.on('message') for a log frame, with the payload and the entry made of it
\* written down
ingestedLog(clientId, message) ==
  /\ foreignMessage(clientId, message)
  /\ lastOp' = [op |-> "ingest", payload |-> message,
                entry |-> ingested'[Len(ingested')]]

\* the log store under payloads of every shape
LevelsNext ==
  \/ clientSeq < MaxInlineSessions /\ connection
       /\ lastOp' = [op |-> "connection"]
       /\ UNCHANGED <<clientVars, linkVars, serializerVars, correlatorVars, captureVars>>
  \/ \E c \in sockets, m \in LevelFrames :
        /\ ingestedLog(c, m)
        /\ UNCHANGED <<clientVars, linkVars, serializerVars, correlatorVars, captureVars>>
  \/ clearLogs /\ lastOp' = [op |-> "clear", discarded |-> lineStateByUri]
       /\ UNCHANGED <<clientVars, linkVars, serializerVars, correlatorVars, captureVars>>

\* the configurations of the broadcast: the loaded one, one with other
\* settings of the config payload (toggleNetwork changes the third), one that
\* changes another setting and one that also restarts the server
BroadcastConfigs ==
  LET loaded == Config(TRUE, 4973, MaxCapacity, TRUE, LEVELS)
  IN  { loaded,
        [loaded EXCEPT !.captureErrors = FALSE,
                       !.logCaptureOptions = [DefaultOptions EXCEPT !.maxDepth = 2]],
        [loaded EXCEPT !.inlineEnabled = FALSE],
        [loaded EXCEPT !.port = 4974, !.captureErrors = FALSE] }

\* the frames sent on the sockets ids
RECURSIVE framesSent(_, _)
framesSent(box, ids) ==
  IF ids = {} THEN 0
  ELSE LET c == CHOOSE x \in ids : TRUE
       IN  Len(box[c]) + framesSent(box, ids \ {c})

\* fewer than MaxConfigFrames frames have been sent
CanBroadcast == framesSent(outbox, DOMAIN outbox) < MaxConfigFrames

\* what a handler that may broadcast did: whether it called broadcastConfig,
\* the session map it went through and the frames sent before it
observedBroadcast(called) ==
  lastOp' = [op |-> IF called THEN "broadcast" ELSE "quiet",
             sessions |-> clients', before |-> outbox]

\* the config broadcast under sessions that come, stop being open and go
BroadcastNext ==
  \/ connection /\ lastOp' = [op |-> "connection"]
       /\ UNCHANGED <<clientVars, linkVars, serializerVars, correlatorVars, captureVars>>
  \/ \E c \in sockets : socketClosing(c) /\ lastOp' = [op |-> "closing"]
       /\ UNCHANGED <<clientVars, linkVars, serializerVars, correlatorVars, captureVars>>
  \/ \E c \in sockets : observedClose(c)
       /\ UNCHANGED <<clientVars, linkVars, serializerVars, correlatorVars, captureVars>>
  \/ CanBroadcast /\ toggleNetwork /\ observedBroadcast(TRUE)
       /\ UNCHANGED <<clientVars, linkVars, serializerVars, correlatorVars, captureVars>>
  \/ \E next \in BroadcastConfigs :
        /\ CanBroadcast
        /\ configChange(next)
        /\ observedBroadcast(broadcasts(config, next))
        /\ UNCHANGED <<clientVars, linkVars, serializerVars, correlatorVars, captureVars>>

\* sessions dropped by a socket error or by stopServer while their sockets
\* still deliver frames
DroppedNext ==
  \/ connection /\ lastOp' = [op |-> "connection"]
       /\ UNCHANGED <<clientVars, linkVars, serializerVars, correlatorVars, captureVars>>
  \/ startServer(TRUE) /\ lastOp' = [op |-> "start"]
       /\ UNCHANGED <<clientVars, linkVars, serializerVars, correlatorVars, captureVars>>
  \/ stopServer /\ lastOp' = [op |-> "stop"]
       /\ UNCHANGED <<clientVars, linkVars, serializerVars, correlatorVars, captureVars>>
  \/ \E c \in sockets : observedClose(c)
       /\ UNCHANGED <<clientVars, linkVars, serializerVars, correlatorVars, captureVars>>
  \/ \E c \in sockets : observedError(c)
       /\ UNCHANGED <<clientVars, linkVars, serializerVars, correlatorVars, captureVars>>
  \/ \E c \in sockets, m \in SessionFrames :
        observedMessage(c, m)
        /\ UNCHANGED <<clientVars, linkVars, serializerVars, correlatorVars, captureVars>>

\* log frames for two lines of one file
TrimFrames ==
  { LogFrame("warn", "", 1, <<"/", "repo", "/", "a.js">>, 1),
    LogFrame("error", "", 2, <<"/", "repo", "/", "a.js">>, 2) }

\* showOutput: the panel is revealed or created, and sent an 'init' message
showOutput ==
  /\ webviewPanel' = TRUE
  /\ viewerLogs' = logs
  /\ UNCHANGED <<storeVars, sessionVars, settingVars, decorations>>

\* panel.onDidDispose: the panel and its viewer are gone
disposePanel ==
  /\ webviewPanel
  /\ webviewPanel' = FALSE
  /\ viewerLogs' = << >>
  /\ UNCHANGED <<storeVars, sessionVars, settingVars, decorations>>

\* the viewer panel next to the log store under logs, trims and clears
ViewerNext ==
  \/ showOutput
       /\ UNCHANGED <<clientVars, linkVars, auditVars, serializerVars, correlatorVars, captureVars>>
  \/ disposePanel
       /\ UNCHANGED <<clientVars, linkVars, auditVars, serializerVars, correlatorVars, captureVars>>
  \/ clientSeq < MaxInlineSessions /\ connection
       /\ UNCHANGED <<clientVars, linkVars, auditVars, serializerVars, correlatorVars, captureVars>>
  \/ \E c \in sockets, m \in TrimFrames :
        foreignMessage(c, m)
        /\ UNCHANGED <<clientVars, linkVars, auditVars, serializerVars, correlatorVars, captureVars>>
  \/ clearLogs
       /\ UNCHANGED <<clientVars, linkVars, auditVars, serializerVars, correlatorVars, captureVars>>
  \/ \E next \in StoreConfigs :
        configChange(next)
        /\ UNCHANGED <<clientVars, linkVars, auditVars, serializerVars, correlatorVars, captureVars>>

\* the log store and the line states under logs and changes of maxLogEntries
TrimNext ==
  \/ clientSeq < MaxInlineSessions /\ connection
       /\ lastOp' = [op |-> "connection"]
       /\ UNCHANGED <<clientVars, linkVars, serializerVars, correlatorVars, captureVars>>
  \/ \E c \in sockets, m \in TrimFrames :
        /\ observedLog(c, m)
        /\ UNCHANGED <<clientVars, linkVars, serializerVars, correlatorVars, captureVars>>
  \/ \E next \in StoreConfigs :
        /\ configChange(next)
        /\ lastOp' = [op |-> "config", levels |-> config.enabledLevels,
                       shown |-> decorations]
        /\ UNCHANGED <<clientVars, linkVars, serializerVars, correlatorVars, captureVars>>

\* the transport server under restarts and sessions that come, fail and go
ServerNext ==
  \/ \E ok \in BOOLEAN : startServer(ok) /\ UNCHANGED <<clientVars, linkVars, auditVars, serializerVars, correlatorVars, captureVars>>
  \/ stopServer /\ UNCHANGED <<clientVars, linkVars, auditVars, serializerVars, correlatorVars, captureVars>>
  \/ connection /\ UNCHANGED <<clientVars, linkVars, auditVars, serializerVars, correlatorVars, captureVars>>
  \/ \E c \in sockets : socketClose(c) /\ UNCHANGED <<clientVars, linkVars, auditVars, serializerVars, correlatorVars, captureVars>>
  \/ \E c \in sockets : socketError(c) /\ UNCHANGED <<clientVars, linkVars, auditVars, serializerVars, correlatorVars, captureVars>>
  \/ \E c \in sockets, m \in MalformedFrames \cup {HelloFrame("node")} :
        foreignMessage(c, m) /\ UNCHANGED <<clientVars, linkVars, auditVars, serializerVars, correlatorVars, captureVars>>
  \/ \E next \in ServerConfigs :
        configChange(next) /\ UNCHANGED <<clientVars, linkVars, auditVars, serializerVars, correlatorVars, captureVars>>

\* ------------------------------------------------------ client: transport
HelloPayload == [type |-> "hello", text |-> 0]

LogPayload(n) == [type |-> "log", text |-> n]

\* the test of send(): state.connected && state.ws && readyState === OPEN
canSend(isConnected, handle) ==
  isConnected /\ handle # 0 /\ readyState[handle] = "OPEN"

\* a send that queues at the front
enqueueFirst(q, payload) == <<payload>> \o q

\* state.queue after send(payload) found the socket not ready
enqueue(q, payload) == Append(q, payload)

\* a send that also queues what it transmits
queueAfterSendAlways(q, payload, c) == enqueue(q, payload)

\* state.queue and the wire after send(payload), with state.connected = c
queueAfterSend(q, payload, c) ==
  IF canSend(c, ws) THEN q ELSE enqueue(q, payload)

wireAfterSend(w, payload, c) ==
  IF canSend(c, ws) THEN [w EXCEPT ![ws] = Append(@, payload)] ELSE w

\* send(payload), called by the capture hooks and exported to the program
send ==
  /\ pc = "idle"
  /\ events < MaxEvents
  /\ events' = events + 1
  /\ queue' = queueAfterSend(queue, LogPayload(events + 1), connected)
  /\ wire' = wireAfterSend(wire, LogPayload(events + 1), connected)
  /\ UNCHANGED <<ws, connected, installed, captureConsole, readyState,
                 retryTimers, wrapLayers, pc, stopped, burst, queueAtOpen,
                 lastCall>>

NoBurst == [closes |-> 0, fired |-> 0, attempts |-> 0]

NeverOpened == [opened |-> FALSE, queue |-> << >>]

\* a console method called through `layers` capture wrappers: each wrapper
\* calls the one below it, then sends its own payload
RECURSIVE queueAfterCall(_, _, _)
queueAfterCall(q, payload, layers) ==
  IF layers = 0 THEN q
  ELSE queueAfterSend(queueAfterCall(q, payload, layers - 1), payload, connected)

RECURSIVE wireAfterCall(_, _, _)
wireAfterCall(w, payload, layers) ==
  IF layers = 0 THEN w
  ELSE wireAfterSend(wireAfterCall(w, payload, layers - 1), payload, connected)

\* console.log(...) and the like, called by the program
consoleCall ==
  /\ pc = "idle"
  /\ events < MaxEvents
  /\ events' = events + 1
  /\ LET sends == IF captureConsole THEN wrapLayers ELSE 0
     IN  /\ queue' = queueAfterCall(queue, LogPayload(events + 1), sends)
         /\ wire' = wireAfterCall(wire, LogPayload(events + 1), sends)
         /\ lastCall' = [made |-> TRUE, hooked |-> installed,
                         capture |-> captureConsole, sent |-> sends]
  /\ UNCHANGED <<ws, connected, installed, captureConsole, readyState,
                 retryTimers, wrapLayers, pc, stopped, burst, queueAtOpen>>

\* an install() without its guard
layersAfterReinstall(isInstalled, layers) == layers + 1

\* wrappers on a console method after install()
layersAfterInstall(isInstalled, layers) ==
  IF isInstalled THEN layers ELSE layers + 1

\* connect() creates a socket only when none is held
connectCreates(handle) == handle = 0

\* start(options); options is "quiet" / "capture" for captureConsole
\* false / true, "none" for no options
start(options) ==
  /\ pc = "idle"
  /\ ~connectCreates(ws) \/ Len(readyState) < MaxSockets
  /\ captureConsole' = IF options = "none" THEN captureConsole
                       ELSE options = "capture"
  /\ installed' = TRUE
  /\ wrapLayers' = layersAfterInstall(installed, wrapLayers)
  /\ IF connectCreates(ws)
     THEN /\ readyState' = Append(readyState, "CONNECTING")
          /\ wire' = Append(wire, << >>)
          /\ queueAtOpen' = Append(queueAtOpen, NeverOpened)
          /\ ws' = Len(readyState) + 1
     ELSE UNCHANGED <<readyState, wire, queueAtOpen, ws>>
  /\ stopped' = FALSE
  /\ burst' = NoBurst
  /\ UNCHANGED <<queue, connected, retryTimers, pc, events, lastCall>>

\* a ws.close() that does nothing
closingIgnored(rs) == rs

\* readyState after ws.close()
closing(rs) == IF rs \in {"CONNECTING", "OPEN"} THEN "CLOSING" ELSE rs

stop ==
  /\ pc = "idle"
  /\ IF ws # 0
     THEN /\ readyState' = [readyState EXCEPT ![ws] = closing(@)]
          /\ ws' = 0
     ELSE UNCHANGED <<readyState, ws>>
  /\ stopped' = TRUE
  /\ burst' = NoBurst
  /\ UNCHANGED <<queue, connected, installed, captureConsole, wire,
                 retryTimers, wrapLayers, pc, events, queueAtOpen, lastCall>>

\* the socket's 'open' handler, up to its call of flushQueue
onOpen(sock) ==
  /\ pc = "idle"
  /\ sock \in DOMAIN readyState
  /\ readyState[sock] = "CONNECTING"
  /\ readyState' = [readyState EXCEPT ![sock] = "OPEN"]
  /\ connected' = TRUE
  /\ pc' = "flush"
  /\ queueAtOpen' = [queueAtOpen EXCEPT ![sock] = [opened |-> TRUE, queue |-> queue]]
  /\ UNCHANGED <<ws, queue, installed, captureConsole, wire, retryTimers,
                 wrapLayers, events, stopped, burst, lastCall>>

\* one turn of the loop of flushQueue; when the queue is empty the loop ends
\* and the open handler sends its hello
flushQueue ==
  /\ pc = "flush"
  /\ IF Len(queue) > 0
     THEN /\ queue' = queueAfterSend(Tail(queue), Head(queue), connected)
          /\ wire' = wireAfterSend(wire, Head(queue), connected)
          /\ pc' = "flush"
     ELSE /\ queue' = queueAfterSend(queue, HelloPayload, connected)
          /\ wire' = wireAfterSend(wire, HelloPayload, connected)
          /\ pc' = "idle"
  /\ UNCHANGED <<ws, connected, installed, captureConsole, readyState,
                 retryTimers, wrapLayers, events, stopped, burst, queueAtOpen,
                 lastCall>>

\* a 'close' handler that keeps the handle
handleKept(handle, sock) == handle

\* state.ws after the 'close' handler of any socket
handleAfterClose(handle, sock) == 0

\* the socket's 'close' handler: the last event of the socket
onClose(sock) ==
  /\ pc = "idle"
  /\ sock \in DOMAIN readyState
  /\ readyState[sock] # "CLOSED"
  /\ readyState' = [readyState EXCEPT ![sock] = "CLOSED"]
  /\ connected' = FALSE
  /\ ws' = handleAfterClose(ws, sock)
  /\ retryTimers' = retryTimers + 1
  /\ burst' = IF burst.fired = 0 THEN [burst EXCEPT !.closes = @ + 1]
              ELSE [closes |-> 1, fired |-> 0, attempts |-> 0]
  /\ UNCHANGED <<queue, installed, captureConsole, wire, wrapLayers, pc,
                 events, stopped, queueAtOpen, lastCall>>

\* the socket's 'error' handler; the socket's 'close' follows
onError(sock) ==
  /\ pc = "idle"
  /\ sock \in DOMAIN readyState
  /\ readyState[sock] # "CLOSED"
  /\ readyState' = [readyState EXCEPT ![sock] = closing(@)]
  /\ connected' = FALSE
  /\ UNCHANGED <<ws, queue, installed, captureConsole, wire, retryTimers,
                 wrapLayers, pc, events, stopped, burst, queueAtOpen, lastCall>>

\* a timer callback that connects without looking at state.ws
retryAlways(handle) == TRUE

\* the test of the timer callback of retryConnect: if (!state.ws) connect()
retryConnects(handle) == handle = 0

\* a timer set by retryConnect fires
retryConnect ==
  /\ pc = "idle"
  /\ retryTimers > 0
  /\ ~retryConnects(ws) \/ Len(readyState) < MaxSockets
  /\ retryTimers' = retryTimers - 1
  /\ IF retryConnects(ws)
     THEN /\ readyState' = Append(readyState, "CONNECTING")
          /\ wire' = Append(wire, << >>)
          /\ queueAtOpen' = Append(queueAtOpen, NeverOpened)
          /\ ws' = Len(readyState) + 1
     ELSE UNCHANGED <<readyState, wire, queueAtOpen, ws>>
  /\ burst' = [burst EXCEPT !.fired = @ + 1,
                            !.attempts = @ + (IF retryConnects(ws) THEN 1 ELSE 0)]
  /\ UNCHANGED <<queue, connected, installed, captureConsole, wrapLayers, pc,
                 events, stopped, lastCall>>

ClientInit ==
  /\ ws = 0
  /\ queue = << >>
  /\ connected = FALSE
  /\ installed = FALSE
  /\ captureConsole = TRUE
  /\ readyState = << >>
  /\ wire = << >>
  /\ retryTimers = 0
  /\ wrapLayers = 0
  /\ pc = "idle"
  /\ events = 0
  /\ stopped = FALSE
  /\ burst = NoBurst
  /\ queueAtOpen = << >>
  /\ lastCall = [made |-> FALSE, hooked |-> FALSE, capture |-> FALSE, sent |-> 0]

\* connect() would not create a socket, or fewer than limit exist
CanConnect(limit) == ws # 0 \/ Len(readyState) < limit

\* connections made, lost and remade, with no event sent
ReconnectNext ==
  \/ start("none") /\ UNCHANGED <<hostVars, linkVars, auditVars, serializerVars, correlatorVars, captureVars>>
  \/ stop /\ UNCHANGED <<hostVars, linkVars, auditVars, serializerVars, correlatorVars, captureVars>>
  \/ \E sock \in DOMAIN readyState : onOpen(sock) /\ UNCHANGED <<hostVars, linkVars, auditVars, serializerVars, correlatorVars, captureVars>>
  \/ flushQueue /\ UNCHANGED <<hostVars, linkVars, auditVars, serializerVars, correlatorVars, captureVars>>
  \/ \E sock \in DOMAIN readyState : onClose(sock) /\ UNCHANGED <<hostVars, linkVars, auditVars, serializerVars, correlatorVars, captureVars>>
  \/ \E sock \in DOMAIN readyState : onError(sock) /\ UNCHANGED <<hostVars, linkVars, auditVars, serializerVars, correlatorVars, captureVars>>
  \/ retryConnect /\ UNCHANGED <<hostVars, linkVars, auditVars, serializerVars, correlatorVars, captureVars>>

\* the 'close' handler, with the socket, the handle held before and the timers
\* pending before it (before the 'error' handler of the same socket when that
\* ran just before) written down
closeSeen(sock) ==
  /\ onClose(sock)
  /\ lastOp' = [op |-> "close", sock |-> sock, held |-> ws,
                timers |-> IF lastOp.op = "error" /\ lastOp.sock = sock
                           THEN lastOp.timers ELSE retryTimers,
                follows |-> lastOp.op]

\* the 'error' handler, with the socket, the handle held before and the timers
\* pending before it written down
errorSeen(sock) ==
  /\ onError(sock)
  /\ lastOp' = [op |-> "error", sock |-> sock, held |-> ws,
                timers |-> retryTimers, follows |-> lastOp.op]

\* stop(), with the handle, the queue, the sockets and what they had been
\* handed before it written down
stopSeen ==
  /\ stop
  /\ lastOp' = [op |-> "stop", held |-> ws, queue |-> queue, wire |-> wire,
                ready |-> readyState]

\* the handler that ran last was none of 'close', 'error' and stop
otherSeen == lastOp' = [op |-> "other"]

\* connections that fail, close and are stopped, handler by handler
DisconnectNext ==
  \/ CanConnect(MaxHookSockets) /\ start("none") /\ otherSeen
       /\ UNCHANGED <<hostVars, linkVars, serializerVars, correlatorVars, captureVars>>
  \/ stopSeen
       /\ UNCHANGED <<hostVars, linkVars, serializerVars, correlatorVars, captureVars>>
  \/ send /\ otherSeen
       /\ UNCHANGED <<hostVars, linkVars, serializerVars, correlatorVars, captureVars>>
  \/ \E sock \in DOMAIN readyState : onOpen(sock) /\ otherSeen
       /\ UNCHANGED <<hostVars, linkVars, serializerVars, correlatorVars, captureVars>>
  \/ flushQueue /\ otherSeen
       /\ UNCHANGED <<hostVars, linkVars, serializerVars, correlatorVars, captureVars>>
  \/ \E sock \in DOMAIN readyState : closeSeen(sock)
       /\ UNCHANGED <<hostVars, linkVars, serializerVars, correlatorVars, captureVars>>
  \/ \E sock \in DOMAIN readyState : errorSeen(sock)
       /\ UNCHANGED <<hostVars, linkVars, serializerVars, correlatorVars, captureVars>>
  \/ CanConnect(MaxHookSockets) /\ retryConnect /\ otherSeen
       /\ UNCHANGED <<hostVars, linkVars, serializerVars, correlatorVars, captureVars>>

\* the capture hooks under starts, stops and reconnections
HooksNext ==
  \/ \E options \in {"none", "quiet", "capture"} :
        /\ CanConnect(MaxHookSockets)
        /\ start(options)
        /\ UNCHANGED <<hostVars, linkVars, auditVars, serializerVars, correlatorVars, captureVars>>
  \/ stop /\ UNCHANGED <<hostVars, linkVars, auditVars, serializerVars, correlatorVars, captureVars>>
  \/ consoleCall /\ UNCHANGED <<hostVars, linkVars, auditVars, serializerVars, correlatorVars, captureVars>>
  \/ \E sock \in DOMAIN readyState : onOpen(sock) /\ UNCHANGED <<hostVars, linkVars, auditVars, serializerVars, correlatorVars, captureVars>>
  \/ flushQueue /\ UNCHANGED <<hostVars, linkVars, auditVars, serializerVars, correlatorVars, captureVars>>
  \/ \E sock \in DOMAIN readyState : onClose(sock) /\ UNCHANGED <<hostVars, linkVars, auditVars, serializerVars, correlatorVars, captureVars>>
  \/ CanConnect(MaxHookSockets) /\ retryConnect /\ UNCHANGED <<hostVars, linkVars, auditVars, serializerVars, correlatorVars, captureVars>>

\* the transport client against a server that accepts, refuses and drops
ClientNext ==
  \/ CanConnect(MaxClientSockets) /\ start("none") /\ UNCHANGED <<hostVars, linkVars, auditVars, serializerVars, correlatorVars, captureVars>>
  \/ stop /\ UNCHANGED <<hostVars, linkVars, auditVars, serializerVars, correlatorVars, captureVars>>
  \/ send /\ UNCHANGED <<hostVars, linkVars, auditVars, serializerVars, correlatorVars, captureVars>>
  \/ \E sock \in DOMAIN readyState : onOpen(sock) /\ UNCHANGED <<hostVars, linkVars, auditVars, serializerVars, correlatorVars, captureVars>>
  \/ flushQueue /\ UNCHANGED <<hostVars, linkVars, auditVars, serializerVars, correlatorVars, captureVars>>
  \/ \E sock \in DOMAIN readyState : onClose(sock) /\ UNCHANGED <<hostVars, linkVars, auditVars, serializerVars, correlatorVars, captureVars>>
  \/ \E sock \in DOMAIN readyState : onError(sock) /\ UNCHANGED <<hostVars, linkVars, auditVars, serializerVars, correlatorVars, captureVars>>
  \/ CanConnect(MaxClientSockets) /\ retryConnect /\ UNCHANGED <<hostVars, linkVars, auditVars, serializerVars, correlatorVars, captureVars>>

\* ----------------------------------------------------- client: serializer
\* A runtime value is [t, v]: a number, a string (v its characters), an
\* Error, or a reference to an array or plain object of the heap (v its
\* identity). A heap node is [kind, items]; the own keys of a plain object
\* are the first of KeyNames, in enumeration order.
Num(n) == [t |-> "number", v |-> n]

Str(s) == [t |-> "string", v |-> s]

Err == [t |-> "error", v |-> 0]

Ref(n) == [t |-> "ref", v |-> n]

KeyNames == <<"a", "self", "c", "d">>

\* the strings serializeValue makes up
CircularMarker == Str(<<"[Circular]">>)

ObjectMarker == Str(<<"[Object]">>)

ArrayMarker(n) == Str(<<"[Array(", ToString(n), ")]">>)

MoreMarker(n) == Str(<<"... (", ToString(n), " more)">>)

MoreKeysMarker(n) == Str(<<ToString(n), " more keys">>)

\* value.slice(0, options.maxStringLength) + '...'
truncateString(chars, max) == SubSeq(chars, 1, max) \o <<"...">>

\* { name, message, stack } of an Error
ErrorMap ==
  [t |-> "object",
   v |-> << [key |-> "name", val |-> Str(<<"Error">>)],
            [key |-> "message", val |-> Str(<<"boom">>)],
            [key |-> "stack", val |-> Str(<<"Error: boom at f">>)] >>]

\* a cycle test that never finds the value
neverSeen(n, seen) == FALSE

\* seen.has(value)
isSeen(n, seen) == n \in seen

\* a depth test that lets one more level through
tooDeepLate(depth, opts) == depth > opts.maxDepth

\* depth >= options.maxDepth
tooDeep(depth, opts) == depth >= opts.maxDepth

\* an array limit that keeps one element more
limitPlusOne(len, max) == IF len <= max + 1 THEN len ELSE max + 1

\* Math.min(value.length, options.maxArray)
arrayLimit(len, max) == IF len <= max THEN len ELSE max

\* serializeValue(value, options, depth, seen): what it returns, and the
\* set `seen` as the call leaves it (the WeakSet is shared by the whole walk)
RECURSIVE serializeValue(_, _, _, _)
RECURSIVE serializeItems(_, _, _, _)
serializeValue(value, opts, depth, seen) ==
  IF value.t = "number" THEN [out |-> value, seen |-> seen]
  ELSE IF value.t = "string"
  THEN [out |-> IF Len(value.v) > opts.maxStringLength
                THEN Str(truncateString(value.v, opts.maxStringLength))
                ELSE value,
        seen |-> seen]
  ELSE IF value.t = "error" THEN [out |-> ErrorMap, seen |-> seen]
  ELSE
    LET node == heap[value.v]
        isArray == node.kind = "array"
        length == Len(node.items)
    IN  IF isSeen(value.v, seen) THEN [out |-> CircularMarker, seen |-> seen]
        ELSE IF tooDeep(depth, opts)
        THEN [out |-> IF isArray THEN ArrayMarker(length) ELSE ObjectMarker,
              seen |-> seen]
        ELSE
          LET limit == arrayLimit(length, IF isArray THEN opts.maxArray
                                          ELSE opts.maxProps)
              walk == serializeItems(SubSeq(node.items, 1, limit), opts,
                                     depth + 1, seen \cup {value.v})
              arr == walk.outs \o (IF length > limit
                                   THEN <<MoreMarker(length - limit)>>
                                   ELSE << >>)
              obj == [i \in 1..limit |->
                        [key |-> KeyNames[i], val |-> walk.outs[i]]]
                     \o (IF length > limit
                         THEN << [key |-> "__truncated__",
                                  val |-> MoreKeysMarker(length - limit)] >>
                         ELSE << >>)
          IN  [out |-> IF isArray THEN [t |-> "array", v |-> arr]
                       ELSE [t |-> "object", v |-> obj],
               seen |-> walk.seen]

\* the loop over the elements or keys, one after the other
serializeItems(items, opts, depth, seen) ==
  IF items = << >> THEN [outs |-> << >>, seen |-> seen]
  ELSE LET first == serializeValue(Head(items), opts, depth, seen)
           rest == serializeItems(Tail(items), opts, depth, first.seen)
       IN  [outs |-> <<first.out>> \o rest.outs, seen |-> rest.seen]

Pending == [t |-> "pending", v |-> 0]

\* serializeValues, for one value: serializeValue(value, options, 0, new WeakSet())
serializeValues ==
  /\ output = Pending
  /\ output' = serializeValue(input, captureOptions, 0, {}).out
  /\ UNCHANGED <<heap, input, captureOptions>>

\* the serializer is idle
SerializerIdle ==
  /\ heap = << >>
  /\ input = Num(0)
  /\ captureOptions = DefaultOptions
  /\ output = Pending

Nodes == 1..MaxNodes

Leaves == {Num(1), Err}

Slots == Leaves \cup {Ref(n) : n \in Nodes}

\* arrays and plain objects of one or two slots, pointing at anything
Heaps == [Nodes -> [kind : {"array", "object"},
                    items : {<<x>> : x \in Slots}
                              \cup {<<x, y>> : x \in Slots, y \in Slots}]]

\* an object graph, cyclic or not, under a depth limit
GraphInit ==
  /\ heap \in Heaps
  /\ input = Ref(1)
  /\ captureOptions \in {[DefaultOptions EXCEPT !.maxDepth = d] :
                    d \in (0..MaxDepth) \cup {DefaultMaxDepth}}
  /\ output = Pending

Chars == {"x", "y"}

Strings == UNION {[1..n -> Chars] : n \in 0..MaxStringLen}

\* a string or a flat array, under length limits
FlatInit ==
  /\ \E n \in 0..MaxArrayLen :
       heap = [i \in {1} |-> [kind |-> "array", items |-> [k \in 1..n |-> Num(k)]]]
  /\ input \in {Ref(1)} \cup {Str(chars) : chars \in Strings}
  /\ captureOptions \in {[DefaultOptions EXCEPT !.maxArray = a, !.maxStringLength = l] :
                    a \in 0..MaxArrayLen, l \in 0..MaxStringLen}
  /\ output = Pending

SerializeNext ==
  serializeValues /\ UNCHANGED <<hostVars, clientVars, linkVars, auditVars, correlatorVars, captureVars>>

\* ------------------------------------------------- client: capture hooks
\* try { original.apply(console, args) } catch (err) { /* ignore */ }
caught(original) == "returns"

\* what the caller of console[method] sees: the wrapper's try/catch when the
\* hooks are installed, the original itself when they are not
consoleOutcome(original, layers) ==
  IF layers = 0 THEN original ELSE caught(original)

\* console.log(...) and the like, with an original that returns or throws
hookedConsoleCall(original) ==
  /\ consoleCall
  /\ lastHook' = [op |-> "console", hooked |-> wrapLayers > 0,
                  original |-> original,
                  caller |-> consoleOutcome(original, wrapLayers)]
  /\ UNCHANGED <<timers, clientConfig, hookLog>>

NetworkPayload(n, status) ==
  [type |-> "log", kind |-> "network", level |-> "network", text |-> n,
   status |-> status]

\* the frames written to the sockets
RECURSIVE Written(_)
Written(w) == IF w = << >> THEN 0 ELSE Len(Head(w)) + Written(Tail(w))

\* the frames the client holds or has written
Frames(q, w) == Len(q) + Written(w)

\* fetch(input, init) through the wrapper of patchNetwork (browser); the
\* original resolves, rejects, or throws before it returns a promise
fetchCall(original) ==
  /\ pc = "idle"
  /\ installed
  /\ events < MaxEvents
  /\ events' = events + 1
  /\ IF clientConfig["networkEnabled"] /\ original # "throws"
     THEN LET payload == NetworkPayload(events + 1,
                            IF original = "resolves" THEN "200" ELSE "ERR")
          IN  /\ queue' = queueAfterSend(queue, payload, connected)
              /\ wire' = wireAfterSend(wire, payload, connected)
     ELSE UNCHANGED <<queue, wire>>
  /\ lastHook' = [op |-> "fetch", hooked |-> TRUE, original |-> original,
                  caller |-> original]
  /\ UNCHANGED <<ws, connected, installed, captureConsole, readyState,
                 retryTimers, wrapLayers, pc, stopped, burst, queueAtOpen,
                 lastCall, timers, clientConfig, hookLog>>

TimePayload(key, n) ==
  [type |-> "log", kind |-> "time", level |-> "time", text |-> n, label |-> key]

\* label || 'default'
timerKey(label) == IF label = "" THEN "default" ELSE label

\* a test that finds a start time for every label
hasTimerAlways(key, running) == TRUE

\* state.timers.get(key) != null
hasTimer(key, running) == key \in running

\* console.time(label) through the wrapper of patchTimers
timeCall(label) ==
  /\ pc = "idle"
  /\ installed
  /\ events < MaxTimerCalls
  /\ events' = events + 1
  /\ timers' = timers \cup {timerKey(label)}
  /\ lastHook' = [op |-> "time", label |-> label, produced |-> 0]
  /\ hookLog' = Append(hookLog, [op |-> "time", label |-> label])
  /\ UNCHANGED <<ws, queue, connected, installed, captureConsole, readyState,
                 wire, retryTimers, wrapLayers, pc, stopped, burst, queueAtOpen,
                 lastCall, clientConfig>>

\* console.timeLog(label) and console.timeEnd(label) through their wrappers
timerReport(op, label) ==
  /\ pc = "idle"
  /\ installed
  /\ events < MaxTimerCalls
  /\ events' = events + 1
  /\ LET key == timerKey(label)
         payload == TimePayload(key, events + 1)
     IN  /\ IF hasTimer(key, timers)
            THEN /\ queue' = queueAfterSend(queue, payload, connected)
                 /\ wire' = wireAfterSend(wire, payload, connected)
            ELSE UNCHANGED <<queue, wire>>
         /\ timers' = IF op = "timeEnd" THEN timers \ {key} ELSE timers
         /\ lastHook' = [op |-> op, label |-> label,
                         produced |-> Frames(queue', wire') - Frames(queue, wire),
                         payload |-> IF hasTimer(key, timers) THEN payload
                                     ELSE [type |-> "none"]]
  /\ hookLog' = Append(hookLog, [op |-> op, label |-> label])
  /\ UNCHANGED <<ws, connected, installed, captureConsole, readyState,
                 retryTimers, wrapLayers, pc, stopped, burst, queueAtOpen,
                 lastCall, clientConfig>>

timeLogCall(label) == timerReport("timeLog", label)

timeEndCall(label) == timerReport("timeEnd", label)

\* an assignment in which the keys of the target win
assignMissing(target, source) ==
  [k \in DOMAIN target \cup DOMAIN source |->
     IF k \in DOMAIN target THEN target[k] ELSE source[k]]

\* Object.assign({}, target, source)
assign(target, source) ==
  [k \in DOMAIN target \cup DOMAIN source |->
     IF k \in DOMAIN source THEN source[k] ELSE target[k]]

\* state.config
FullConfig(others, capture) ==
  [k \in DOMAIN others \cup {"captureConsole"} |->
     IF k = "captureConsole" THEN capture ELSE others[k]]

\* the keys a config message may carry; "theme" is in no DEFAULTS
ConfigKeys == {"captureConsole", "networkEnabled", "logCaptureOptions", "theme"}

\* message.config: any of the keys, each with a value of its kind
ConfigPayloads ==
  { [k \in keys |->
       IF k = "logCaptureOptions" THEN o
       ELSE IF k = "theme" THEN "dark"
       ELSE flags[k]] :
      keys \in SUBSET ConfigKeys,
      flags \in [{"captureConsole", "networkEnabled"} -> BOOLEAN],
      o \in {DefaultOptions, [maxDepth |-> 1]} }

\* the messages a socket delivers: config messages, one without a config,
\* one of another type, and data that JSON.parse rejects
ConfigMessages ==
  { [parse |-> "object", type |-> "config", config |-> c] : c \in ConfigPayloads }
    \cup { [parse |-> "object", type |-> "config", config |-> << >>],
           [parse |-> "object", type |-> "other", config |-> << >>],
           [parse |-> "error", type |-> "", config |-> << >>] }

\* the socket's 'message' handler
onMessage(sock, message) ==
  /\ pc = "idle"
  /\ sock \in DOMAIN readyState
  /\ readyState[sock] = "OPEN"
  /\ LET current == FullConfig(clientConfig, captureConsole)
         merged == IF message.parse = "object" /\ message.type = "config"
                   THEN assign(current, message.config)
                   ELSE current
     IN  /\ captureConsole' = merged["captureConsole"]
         /\ clientConfig' = [k \in DOMAIN merged \ {"captureConsole"} |-> merged[k]]
         /\ lastHook' = [op |-> "message", message |-> message, before |-> current]
  /\ UNCHANGED <<ws, queue, connected, installed, readyState, wire, retryTimers,
                 wrapLayers, pc, events, stopped, burst, queueAtOpen, lastCall,
                 timers, hookLog>>

\* DEFAULTS, but for captureConsole; no hook has been called
CaptureIdle ==
  /\ timers = {}
  /\ clientConfig = [k \in {"networkEnabled", "captureErrors", "logCaptureOptions"} |->
                       IF k = "logCaptureOptions" THEN DefaultOptions ELSE TRUE]
  /\ lastHook = [op |-> "none"]
  /\ hookLog = << >>

\* the hooks around originals that fail
FailuresNext ==
  \/ CanConnect(MaxHookSockets) /\ start("none")
       /\ UNCHANGED <<hostVars, linkVars, auditVars, serializerVars, correlatorVars, captureVars>>
  \/ \E sock \in DOMAIN readyState : onOpen(sock)
       /\ UNCHANGED <<hostVars, linkVars, auditVars, serializerVars, correlatorVars, captureVars>>
  \/ flushQueue
       /\ UNCHANGED <<hostVars, linkVars, auditVars, serializerVars, correlatorVars, captureVars>>
  \/ \E original \in {"returns", "throws"} : hookedConsoleCall(original)
       /\ UNCHANGED <<hostVars, linkVars, auditVars, serializerVars, correlatorVars>>
  \/ \E original \in {"resolves", "rejects", "throws"} : fetchCall(original)
       /\ UNCHANGED <<hostVars, linkVars, auditVars, serializerVars, correlatorVars>>
  \/ \E sock \in DOMAIN readyState, enabled \in BOOLEAN :
        onMessage(sock, [parse |-> "object", type |-> "config",
                         config |-> [k \in {"networkEnabled"} |-> enabled]])
       /\ UNCHANGED <<hostVars, linkVars, auditVars, serializerVars, correlatorVars>>

\* the labels of the timer calls; "" for a call without a label
Labels == {"", "default", "a"}

\* the timer hooks
TimersNext ==
  \/ CanConnect(MaxHookSockets) /\ start("none")
       /\ UNCHANGED <<hostVars, linkVars, auditVars, serializerVars, correlatorVars, captureVars>>
  \/ \E sock \in DOMAIN readyState : onOpen(sock)
       /\ UNCHANGED <<hostVars, linkVars, auditVars, serializerVars, correlatorVars, captureVars>>
  \/ flushQueue
       /\ UNCHANGED <<hostVars, linkVars, auditVars, serializerVars, correlatorVars, captureVars>>
  \/ \E label \in Labels : timeCall(label)
       /\ UNCHANGED <<hostVars, linkVars, auditVars, serializerVars, correlatorVars>>
  \/ \E label \in Labels : timeLogCall(label)
       /\ UNCHANGED <<hostVars, linkVars, auditVars, serializerVars, correlatorVars>>
  \/ \E label \in Labels : timeEndCall(label)
       /\ UNCHANGED <<hostVars, linkVars, auditVars, serializerVars, correlatorVars>>

\* the client's config under the messages of its sockets
ClientConfigNext ==
  \/ CanConnect(MaxHookSockets) /\ start("none")
       /\ UNCHANGED <<hostVars, linkVars, auditVars, serializerVars, correlatorVars, captureVars>>
  \/ \E sock \in DOMAIN readyState : onOpen(sock)
       /\ UNCHANGED <<hostVars, linkVars, auditVars, serializerVars, correlatorVars, captureVars>>
  \/ flushQueue
       /\ UNCHANGED <<hostVars, linkVars, auditVars, serializerVars, correlatorVars, captureVars>>
  \/ \E sock \in DOMAIN readyState, m \in ConfigMessages : onMessage(sock, m)
       /\ UNCHANGED <<hostVars, linkVars, auditVars, serializerVars, correlatorVars>>

\* ------------------------------------------------------------------ claims
InOrder(ids) == \A i, j \in 1..Len(ids) : i < j => ids[i] < ids[j]

LogTexts(payloads) ==
  LET logsOnly == SelectSeq(payloads, LAMBDA p : p.type = "log")
  IN  [i \in 1..Len(logsOnly) |-> logsOnly[i].text]

\* C1: the ids addLogEntry assigns are strictly increasing, so none is
\* assigned twice, whatever clears and trims happen in between; the ids of the
\* entries held by the store are among them, in the same order.
IdsStrictlyIncrease ==
  /\ InOrder(idLog)
  /\ InOrder([i \in 1..Len(logs) |-> logs[i].id])
  /\ \A i \in 1..Len(logs) : \E k \in 1..Len(idLog) : idLog[k] = logs[i].id

\* an ingestion after a clear that followed earlier ingestions
IdsWitness == Len(idLog) >= 3 /\ Len(ingested) = 1 /\ Len(logs) = 1

LastOf(entries, n) == SubSeq(entries, Len(entries) - n + 1, Len(entries))

Min(a, b) == IF a <= b THEN a ELSE b

\* C3: after n ingestions under one capacity m, the store is the last
\* min(n, m) of the ingested entries, in order, each as ingested (id included).
RetainsMostRecent ==
  capacityStable =>
    logs = LastOf(ingested, Max(0, Min(Len(ingested), maxLogEntries)))

\* three ingestions with capacity 2 leave the 2nd and the 3rd
RetainsWitness ==
  /\ capacityStable
  /\ maxLogEntries = 2
  /\ Len(ingested) = 3
  /\ logs = <<ingested[2], ingested[3]>>
  /\ logs[1].id = 2 /\ logs[2].id = 3

\* the sockets that have carried event n
Carriers(n) ==
  {sock \in DOMAIN wire : \E i \in DOMAIN wire[sock] : wire[sock][i] = LogPayload(n)}

Queued(n) == \E i \in DOMAIN queue : queue[i] = LogPayload(n)

\* the texts of the entries the server has ingested from session clientId
IngestedFrom(clientId) ==
  LET own == SelectSeq(ingested, LAMBDA e : e.clientId = clientId)
  IN  [i \in 1..Len(own) |-> own[i].text]

\* C4: every event given to send is either waiting in the queue or has been
\* transmitted on one connection, never both and never twice; the queue holds
\* the events in the order send was called, every connection carries its
\* events in that order, and what the server has ingested from a connection
\* is, in order, the events delivered to it so far.
FifoPerConnection ==
  /\ \A n \in 1..events :
        IF Queued(n) THEN Carriers(n) = {} ELSE Cardinality(Carriers(n)) = 1
  /\ pc = "idle" => InOrder(LogTexts(queue))
  /\ \A sock \in DOMAIN wire : InOrder(LogTexts(wire[sock]))
  /\ \A sock \in DOMAIN wire :
        peer[sock] # 0 =>
          IngestedFrom(peer[sock]) = LogTexts(SubSeq(wire[sock], 1, delivered[sock]))

\* one event was queued and flushed when the connection opened, a second was
\* sent on the open connection, and the server has ingested both
FifoWitness ==
  \E sock \in DOMAIN wire :
    /\ queueAtOpen[sock].opened
    /\ queueAtOpen[sock].queue = <<LogPayload(1)>>
    /\ LogTexts(wire[sock]) = <<1, 2>>
    /\ IngestedFrom(peer[sock]) = <<1, 2>>
    /\ Len(logs) = 2

\* what a frame must be for the server to act on it
WellFormed(op) == op.parse = "object" /\ op.type \in {"hello", "log"}

\* C11: a malformed inbound message (not JSON, not an object, type missing
\* or unknown) changes neither the log store, nor the id counter, nor the
\* session map, nor the LineState, and nothing is sent to any session.
MalformedDiscarded ==
  (lastOp.op = "message" /\ ~WellFormed(lastOp)) => lastOp.touched = {}

\* a message of unknown type reached a server with a live session, entries
\* in the store and a LineState
MalformedWitness ==
  /\ lastOp.op = "message"
  /\ lastOp.parse = "object" /\ lastOp.type = "ping"
  /\ lastOp.clientId \in DOMAIN clients
  /\ Len(logs) > 0
  /\ DOMAIN lineStateByUri # {}

\* C12: when the socket of a session closes or errors, the session is out of
\* the session map, and the log store, the id counter and the LineState are
\* as they were: the entries of that session stay.
DropKeepsStore ==
  lastOp.op \in {"close", "error"} =>
    /\ lastOp.clientId \notin DOMAIN clients
    /\ lastOp.touched \subseteq {"clients"}

\* the socket of a session with entries in the store has errored
DropWitness ==
  /\ lastOp.op = "error"
  /\ lastOp.touched = {"clients"}
  /\ \E i \in 1..Len(logs) : logs[i].clientId = lastOp.clientId
  /\ DOMAIN lineStateByUri # {}

\* the elements or own keys of the array or plain object value refers to
ItemsOf(value) == heap[value.v].items

\* the i-th element or property value of a serialized array or mapping
OutAt(o, i) == IF o.t = "array" THEN o.v[i] ELSE o.v[i].val

\* o is the array or mapping made from the container value refers to (no
\* truncation: maxArray and maxProps exceed the sizes of the graphs)
MadeFrom(value, o) == value.t = "ref" /\ o.t = heap[value.v].kind

RECURSIVE MarksCycles(_, _, _)
MarksCycles(value, o, path) ==
  IF value.t # "ref" THEN TRUE
  ELSE IF value.v \in path THEN o = CircularMarker
  ELSE MadeFrom(value, o) =>
         \A i \in 1..Len(ItemsOf(value)) :
           MarksCycles(ItemsOf(value)[i], OutAt(o, i), path \cup {value.v})

\* C13: serializing an object graph with a cycle returns, and every
\* reference to a container that is being serialized on the path to it (an
\* ancestor, or the container itself) is replaced by the string '[Circular]'.
CyclesMarked == output # Pending => MarksCycles(input, output, {})

\* {a: 1, self: <itself>} with maxDepth 4 gives {a: 1, self: '[Circular]'}
CyclesWitness ==
  /\ heap[1] = [kind |-> "object", items |-> <<Num(1), Ref(1)>>]
  /\ captureOptions.maxDepth = 4
  /\ output = [t |-> "object",
               v |-> << [key |-> "a", val |-> Num(1)],
                        [key |-> "self", val |-> CircularMarker] >>]

RECURSIVE SerializedInFull(_, _, _, _)
SerializedInFull(value, o, path, depth) ==
  IF value.t # "ref" \/ value.v \in path THEN TRUE
  ELSE IF depth >= captureOptions.maxDepth THEN o # CircularMarker
  ELSE /\ MadeFrom(value, o)
       /\ \A i \in 1..Len(ItemsOf(value)) :
            SerializedInFull(ItemsOf(value)[i], OutAt(o, i),
                             path \cup {value.v}, depth + 1)

\* C14: only the ancestors on the path count as being serialized: a
\* container that is referenced again from a sibling branch, and is no
\* ancestor there, is serialized again and not replaced by '[Circular]'.
SharedSerializedInFull == output # Pending => SerializedInFull(input, output, {}, 0)

RECURSIVE DepthBound(_, _, _)
DepthBound(value, o, depth) ==
  /\ o.t \in {"array", "object"} => depth <= captureOptions.maxDepth
  /\ (value.t = "ref" /\ depth >= captureOptions.maxDepth) => o.t = "string"
  /\ MadeFrom(value, o) =>
       \A i \in 1..Len(ItemsOf(value)) :
         DepthBound(ItemsOf(value)[i], OutAt(o, i), depth + 1)

\* C15: with maxDepth = d, no array or mapping of the output lies more than
\* d levels below the root, and an array or plain object met at depth >= d
\* is replaced by a string.
DepthBounded == output # Pending => DepthBound(input, output, 0)

\* with maxDepth 1, a plain object and an Error inside the root array: the
\* object becomes a marker, the Error its {name, message, stack}
DepthWitness ==
  /\ captureOptions.maxDepth = 1
  /\ heap[1] = [kind |-> "array", items |-> <<Ref(2), Err>>]
  /\ heap[2].kind = "object"
  /\ output = [t |-> "array", v |-> <<ObjectMarker, ErrorMap>>]

\* C16: a string longer than maxStringLength becomes its first
\* maxStringLength characters and '...'; an array longer than maxArray
\* becomes its first maxArray elements, serialized, and one 'more' marker;
\* strings and arrays within the limits are not truncated.
Truncates ==
  output # Pending =>
    IF input.t = "string"
    THEN IF Len(input.v) > captureOptions.maxStringLength
         THEN output = Str(SubSeq(input.v, 1, captureOptions.maxStringLength)
                           \o <<"...">>)
         ELSE output = input
    ELSE LET items == ItemsOf(input)
             max == captureOptions.maxArray
         IN  /\ output.t = "array"
             /\ IF Len(items) > max
                THEN /\ Len(output.v) = max + 1
                     /\ SubSeq(output.v, 1, max) = SubSeq(items, 1, max)
                     /\ output.v[max + 1] = MoreMarker(Len(items) - max)
                ELSE output.v = items

\* an array of 3 under maxArray 2
TruncatesWitness ==
  /\ input = Ref(1)
  /\ captureOptions.maxArray = 2
  /\ output = [t |-> "array", v |-> <<Num(1), Num(2), MoreMarker(1)>>]

\* C10: the session ids the server assigns are strictly increasing, so none
\* is used twice, and every live session has one of them.
SessionIdsStrictlyIncrease ==
  /\ InOrder(sessionLog)
  /\ \A c \in DOMAIN clients : \E k \in 1..Len(sessionLog) : sessionLog[k] = c

\* a session accepted after the server was stopped with sessions and restarted
SessionIdsWitness ==
  /\ restarts.stopped /\ restarts.sessions >= 1
  /\ Len(sessionLog) > restarts.sessions
  /\ DOMAIN clients # {}

Alive == {sock \in DOMAIN readyState : readyState[sock] \in {"CONNECTING", "OPEN"}}

\* C6: the client never has two connections alive at once.
AtMostOneAlive == Cardinality(Alive) <= 1

\* C7: from stop() until the next start(), no connection is created.
NoReconnectAfterStop ==
  [][(stopped /\ stopped') => Len(readyState') = Len(readyState)]_vars

IsPrefix(p, q) == Len(p) <= Len(q) /\ SubSeq(q, 1, Len(p)) = p

Hellos(payloads) == Len(SelectSeq(payloads, LAMBDA p : p.type = "hello"))

\* C8: once the open handler of a connection has run, that connection has
\* carried the queued events, in order, then one hello, before anything else.
HelloFollowsFlush ==
  pc = "idle" =>
    \A sock \in DOMAIN wire :
      queueAtOpen[sock].opened =>
        /\ IsPrefix(queueAtOpen[sock].queue \o <<HelloPayload>>, wire[sock])
        /\ Hellos(wire[sock]) = 1

\* C9: whatever starts and stops were called, each console method carries one
\* capture wrapper, and a console call produces one log event.
HooksInstalledOnce ==
  /\ wrapLayers = (IF installed THEN 1 ELSE 0)
  /\ lastCall.made =>
       lastCall.sent = (IF lastCall.hooked /\ lastCall.capture THEN 1 ELSE 0)

\* a console call after stop() and a second start()
HooksWitness ==
  /\ readyState = <<"CLOSING", "CONNECTING">>
  /\ retryTimers = 0
  /\ lastCall.made /\ lastCall.sent = 1
  /\ events = 1

\* the latest handler was a log frame that updateInlineForEntry recorded
Recorded(op) ==
  op.op = "log" /\ op.resolved # << >> /\ op.enabled /\ op.inline

\* the occurrence suffix of an inline text: what follows the blank and the text
SuffixOf(contentText) == SubSeq(contentText, 3, Len(contentText))

\* the decorations shown on a line of a file
ShownAt(shown, file, line) ==
  IF file \in DOMAIN shown THEN { d \in shown[file] : d.line = line } ELSE {}

\* one step of the counts of state.lineStateByUri
CountStep ==
  /\ \A k \in DOMAIN lineStateByUri' :
       LET was == countAt(lineStateByUri, k)
           now == lineStateByUri'[k]
       IN  \/ was > 0 /\ now = lineStateByUri[k]
           \/ /\ now.count = was + 1
              /\ Recorded(lastOp')
              /\ k = <<lastOp'.resolved, lastOp'.line>>
              /\ now.entry = lastOp'.entry
              /\ SuffixOf(formatInlineText(now.entry, now.count)) =
                   (IF was = 0 THEN << >> ELSE <<" (+", was, ")">>)
              /\ k[1] \in visibleTextEditors /\ k[2] < lineCount(k[1]) =>
                   ShownAt(decorations', k[1], k[2]) =
                     { [line |-> k[2], level |-> now.entry.level,
                        contentText |-> formatInlineText(now.entry, now.count)] }
  /\ Recorded(lastOp') /\ lastOp' # lastOp =>
       LET k == <<lastOp'.resolved, lastOp'.line>>
       IN  /\ k \in DOMAIN lineStateByUri'
           /\ lineStateByUri'[k] =
                [entry |-> lastOp'.entry, count |-> countAt(lineStateByUri, k) + 1]
  /\ lastOp'.op # "clear" => DOMAIN lineStateByUri \subseteq DOMAIN lineStateByUri'

\* C17: the count of a (file, line) key starts at 1, grows by exactly one
\* with every event recorded on the key, which replaces the event held, and
\* is kept or raised by every step but a clear; from the second event on the
\* inline text ends in the suffix " (+n)" for a count of n + 1, so " (+1)"
\* after two events.
CountsGrowByOne == [][CountStep]_vars

\* two events recorded on one line: count 2, the second held, "+1" shown
CountsWitness ==
  /\ Recorded(lastOp)
  /\ lastOp.before = 1 /\ lastOp.after = 2 /\ lastOp.held
  /\ \E d \in ShownAt(decorations, lastOp.resolved, lastOp.line) :
       d.contentText = <<" ", lastOp.entry.text, " (+", 1, ")">>

\* C18: after the ingestion of a log event whose location resolves to a
\* file, the key (file, max(0, line - 1)) holds that event and a count one
\* greater than before, whatever the level of the event, the level filter and
\* the inline-display setting.
EveryResolvedRecorded ==
  lastOp.op = "log" /\ lastOp.resolved # << >> =>
    /\ lastOp.line = Max(0, lastOp.entry.line - 1)
    /\ lastOp.held
    /\ lastOp.after = lastOp.before + 1

\* the directive of a key of state.lineStateByUri
DirectiveOf(k) ==
  [line |-> k[2], level |-> lineStateByUri[k].entry.level,
   contentText |-> formatInlineText(lineStateByUri[k].entry,
                                    lineStateByUri[k].count)]

\* the keys of state.lineStateByUri that belong to a file
LinesOf(file) == { k \in DOMAIN lineStateByUri : k[1] = file }

\* C19 as stated: the decorations of a file hold one directive for every
\* LineState line of the file whose event's level is enabled, and none for a
\* line whose event's level is filtered out.
DirectivePerEnabledLine ==
  \A file \in visibleTextEditors : \A k \in LinesOf(file) :
    IF lineStateByUri[k].entry.level \in config.enabledLevels
    THEN ShownAt(decorations, file, k[2]) = {DirectiveOf(k)}
    ELSE ShownAt(decorations, file, k[2]) = {}

\* C19, amended: while inline display is enabled, the decorations of a file
\* hold exactly one directive for every LineState line of the file that lies
\* within the document and whose event's level is enabled, and none for any
\* other line; while inline display is disabled they hold none. This is so
\* after every handler, so a level that is enabled again shows its lines
\* again without new events.
DirectivePerShownLine ==
  \A file \in visibleTextEditors :
    /\ ~inlineEnabled => decorations[file] = {}
    /\ \A d \in decorations[file] : <<file, d.line>> \in LinesOf(file)
    /\ \A k \in LinesOf(file) :
         IF /\ inlineEnabled
            /\ k[2] < lineCount(file)
            /\ lineStateByUri[k].entry.level \in config.enabledLevels
         THEN ShownAt(decorations, file, k[2]) = {DirectiveOf(k)}
         ELSE ShownAt(decorations, file, k[2]) = {}

\* a change of the settings enabled "warn" again, and a line whose event is a
\* warning, hidden before the change, is shown after it
ReenabledWitness ==
  /\ lastOp.op = "config"
  /\ "warn" \notin lastOp.levels /\ "warn" \in config.enabledLevels
  /\ \E file \in visibleTextEditors : \E k \in LinesOf(file) :
       /\ lineStateByUri[k].entry.level = "warn"
       /\ ShownAt(lastOp.shown, file, k[2]) = {}
       /\ ShownAt(decorations, file, k[2]) = {DirectiveOf(k)}

\* C20: a log event whose location cannot be resolved (no file, or no
\* candidate path on disk) is appended to the store with an id no entry had
\* before, and state.lineStateByUri and the decorations are left as they were.
UnresolvedStoredOnly ==
  lastOp.op = "log" /\ lastOp.resolved = << >> =>
    /\ lastOp.stored /\ lastOp.fresh
    /\ lastOp.entry.id = logSeq
    /\ lastOp.touched = {"logs", "logSeq"}

\* an enabled event for a file that is not on disk was ingested, inline
\* display on, after an event that was recorded
UnresolvedWitness ==
  /\ lastOp.op = "log" /\ lastOp.resolved = << >>
  /\ lastOp.entry.file = <<"gone.js">>
  /\ lastOp.enabled /\ lastOp.inline
  /\ lineStateByUri # << >>
  /\ Len(logs) = 2 /\ logs[2] = lastOp.entry

\* the key of state.lineStateByUri that an entry is recorded under
KeyOf(entry) == <<resolveEntryPath(entry, config.pathMappings), lineOf(entry)>>

\* the entries pushed since the last clear whose location is the key
PushedAt(k) == { i \in 1..Len(ingested) : KeyOf(ingested[i]) = k }

\* C21: clearLogs leaves the store empty and state.lineStateByUri without any
\* entry, for every file and line; the count of a key is at least 1 and at
\* most the number of events pushed on the key since the last clear, so the
\* first event recorded on a line after a clear has count 1.
ClearDiscardsAll ==
  /\ lastOp.op = "clear" =>
       /\ logs = << >>
       /\ lineStateByUri = << >>
       /\ \A file \in visibleTextEditors : decorations[file] = {}
  /\ \A k \in DOMAIN lineStateByUri :
       /\ lineStateByUri[k].count >= 1
       /\ lineStateByUri[k].count <= Cardinality(PushedAt(k))

\* an event recorded right after a clear, on a line that had a state before
\* the clear, has count 1
ClearWitness ==
  /\ Recorded(lastOp)
  /\ lastOp.follows.op = "clear"
  /\ <<lastOp.resolved, lastOp.line>> \in DOMAIN lastOp.follows.discarded
  /\ lineStateByUri[<<lastOp.resolved, lastOp.line>>].count = 1
  /\ logs = <<lastOp.entry>>

\* the mappings of the list whose urlPrefix is a prefix of the location
MatchingAt(loc, mappings) ==
  { i \in 1..Len(mappings) :
      /\ Len(mappings[i].urlPrefix) > 0 /\ Len(mappings[i].localPathPrefix) > 0
      /\ StartsWith(loc, mappings[i].urlPrefix) }

\* the least element of a non-empty set of numbers
Least(S) == CHOOSE i \in S : \A j \in S : i <= j

\* the mapping step decided by the first matching mapping alone
FirstMatchDecides(loc, mappings) ==
  IF MatchingAt(loc, mappings) = {} THEN << >>
  ELSE mapWithMappings(loc, <<mappings[Least(MatchingAt(loc, mappings))]>>, 1)

\* C22: the mappings are tried in list order and the first one whose
\* urlPrefix is a prefix of the location decides the outcome of the mapping
\* step; no later mapping is consulted once an earlier one has matched.
FirstMatchingPrefixWins ==
  resolution # NotYet /\ HasScheme(location) =>
    mapWithMappings(location, mappingList, 1) =
      FirstMatchDecides(location, mappingList)

\* a path joined against the first workspace root, in root order, under
\* which it exists; << >> when there is none
UnderFirstRoot(rel) ==
  LET holding == { i \in 1..Len(workspaceFolders) :
                     pathJoin(workspaceFolders[i], rel) \in disk }
  IN  IF holding = {} THEN << >>
      ELSE pathJoin(workspaceFolders[Least(holding)], rel)

\* a substituted location accepted: an absolute one when it exists, a
\* relative one under the first root that holds it
Accepted(p) ==
  IF isAbsolute(p) THEN (IF p \in disk THEN p ELSE << >>) ELSE UnderFirstRoot(p)

\* the prefix of mapping m replaced in the location
Substituted(loc, m) == m.localPathPrefix \o DropFirst(loc, Len(m.urlPrefix))

\* the reference procedure of resolve: six steps, the first success returned
ReferenceResolve(loc, mappings) ==
  LET fsPath == decodeURIComponent(DropFirst(loc, 1))
      succeeding == { i \in MatchingAt(loc, mappings) :
                        Accepted(Substituted(loc, mappings[i])) # << >> }
      viaMapping == IF succeeding = {} THEN << >>
                    ELSE Accepted(Substituted(loc, mappings[Least(succeeding)]))
      urlPath == decodeURIComponent(urlPathname(loc))
      viaUrl == IF ~HasScheme(loc) \/ urlPath = << >> THEN << >>
                ELSE UnderFirstRoot(IF isAbsolute(urlPath) THEN DropFirst(urlPath, 1)
                                    ELSE urlPath)
  IN  IF loc = << >> THEN << >>
      ELSE IF StartsWith(loc, <<"file://">>) /\ fsPath \in disk THEN fsPath
      ELSE IF viaMapping # << >> THEN viaMapping
      ELSE IF viaUrl # << >> THEN viaUrl
      ELSE IF isAbsolute(loc) /\ loc \in disk THEN loc
      ELSE IF ~isAbsolute(loc) THEN UnderFirstRoot(loc)
      ELSE << >>

\* C23: for every location, mapping list, root list and set of existing
\* files, resolve returns what the reference procedure returns: the file of a
\* local-file URI that exists, else the substitution of a mapping whose
\* urlPrefix the location starts with, else the path of a URL under a root,
\* else an absolute path that exists, else a relative path under a root, else
\* unresolved.
ResolvesAsReference ==
  resolution # NotYet => resolution = ReferenceResolve(location, mappingList)

\* C24: an absolute location that exists resolves to itself; a relative
\* location resolves to its join with the first workspace root, in root
\* order, under which the file exists, and is unresolved when it exists under
\* no root.
AbsoluteOrUnderRoot ==
  resolution # NotYet =>
    /\ isAbsolute(location) /\ location \in disk => resolution = location
    /\ location # << >> /\ ~isAbsolute(location) /\ ~HasScheme(location) =>
         resolution = UnderFirstRoot(location)

\* a relative location that the first root does not hold and the second does
SecondRootWitness ==
  /\ location = <<"b.js">>
  /\ workspaceFolders = << <<"/", "repo">>, <<"/", "lib">> >>
  /\ resolution = <<"/", "lib", "/", "b.js">>

\* C25: when the original console or network function wrapped by a capture
\* hook throws (or, for fetch, rejects), the caller of the wrapped function
\* gets the same failure: the hook does not swallow it.
FailurePropagates ==
  /\ lastHook.op \in {"console", "fetch"}
  /\ lastHook.hooked
  /\ lastHook.original \in {"throws", "rejects"}
  => lastHook.caller = lastHook.original

\* the label a call is about: 'default' for a call without one
LabelOf(call) == IF call.label = "" THEN "default" ELSE call.label

\* after the first n calls of the history, the label has a running timer: a
\* time call on it that no timeEnd on it has followed
RunningAfter(n, label) ==
  \E i \in 1..n :
    /\ hookLog[i].op = "time" /\ LabelOf(hookLog[i]) = label
    /\ \A j \in (i + 1)..n :
         ~(hookLog[j].op = "timeEnd" /\ LabelOf(hookLog[j]) = label)

\* C26: for every sequence of time, timeLog and timeEnd calls, a timeLog or
\* timeEnd on a label without a running timer (never started, or ended by a
\* timeEnd) produces no event, one on a label with a running timer produces
\* exactly one event, of kind 'time' and with that label, and a call without
\* a label is a call on 'default'; time itself produces none.
TimersReportRunning ==
  lastHook.op \in {"time", "timeLog", "timeEnd"} =>
    LET n == Len(hookLog)
        label == LabelOf(hookLog[n])
    IN  /\ hookLog[n] = [op |-> lastHook.op, label |-> lastHook.label]
        /\ IF lastHook.op # "time" /\ RunningAfter(n - 1, label)
           THEN /\ lastHook.produced = 1
                /\ lastHook.payload.kind = "time"
                /\ lastHook.payload.label = label
           ELSE lastHook.produced = 0

\* a timer started as 'default' is ended by a timeEnd without a label, which
\* reports it; a second timeEnd on it reports nothing
TimersWitness ==
  /\ Len(hookLog) = 3
  /\ hookLog[1] = [op |-> "time", label |-> "default"]
  /\ hookLog[2] = [op |-> "timeEnd", label |-> ""]
  /\ hookLog[3] = [op |-> "timeEnd", label |-> "default"]
  /\ lastHook.op = "timeEnd" /\ lastHook.produced = 0
  /\ Frames(queue, wire) >= 1

\* the latest message was a config message
ConfigReceived(hook) ==
  hook.op = "message" /\ hook.message.parse = "object"
    /\ hook.message.type = "config"

\* the keys that differ between two configs
Changed(a, b) ==
  { k \in DOMAIN a \cup DOMAIN b :
      k \notin DOMAIN a \/ k \notin DOMAIN b \/ a[k] # b[k] }

\* the client's config right after a config message
MergedShallow ==
  ConfigReceived(lastHook) =>
    LET now == FullConfig(clientConfig, captureConsole)
        carried == lastHook.message.config
    IN  /\ DOMAIN now = DOMAIN lastHook.before \cup DOMAIN carried
        /\ \A k \in DOMAIN carried : now[k] = carried[k]
        /\ \A k \in DOMAIN lastHook.before \ DOMAIN carried :
             now[k] = lastHook.before[k]

\* a config message that follows the same config message changes nothing
SameMessageAgain ==
  /\ ConfigReceived(lastHook) /\ ConfigReceived(lastHook')
  /\ lastHook'.message = lastHook.message
  /\ lastHook'.before = FullConfig(clientConfig, captureConsole)
  => Changed(FullConfig(clientConfig', captureConsole'),
             FullConfig(clientConfig, captureConsole)) = {}

\* the latest handler ingested a log payload
Ingested == lastOp.op = "ingest"

KindDefaultsToLevel ==
  (Ingested /\ lastOp.payload.kind = "")
    => lastOp.entry.kind = lastOp.entry.level

\* C29: a config message replaces the value of every top-level key it
\* carries and leaves every other key of the client's config as it was; the
\* same message applied a second time changes nothing.
ConfigMergeIdempotent == []MergedShallow /\ [][SameMessageAgain]_vars

\* a message that carries one key of the config and a new key arrived twice:
\* the carried keys have its values, the others are the defaults
ConfigWitness ==
  /\ ConfigReceived(lastHook)
  /\ DOMAIN lastHook.message.config = {"networkEnabled", "theme"}
  /\ lastHook.before = FullConfig(clientConfig, captureConsole)
  /\ clientConfig["networkEnabled"] = FALSE
  /\ clientConfig["theme"] = "dark"
  /\ clientConfig["logCaptureOptions"] = DefaultOptions
  /\ captureConsole

\* the latest handler called broadcastConfig
Broadcast == lastOp.op = "broadcast"

\* the sessions the broadcast went through whose socket was open
OpenSessions ==
  { c \in DOMAIN lastOp.sessions : lastOp.sessions[c].ws = "OPEN" }

\* the config payload of the host's current config
CurrentPayload ==
  [networkEnabled |-> config.networkEnabled,
   captureErrors |-> config.captureErrors,
   logCaptureOptions |-> config.logCaptureOptions]

\* C30: a config broadcast sends one config frame with the current
\* networkEnabled, captureErrors and logCaptureOptions on the socket of every
\* session of state.clients whose socket is open, sends nothing on any other
\* socket, and leaves the session map as it was.
BroadcastReachesOpenSessions ==
  Broadcast =>
    /\ DOMAIN outbox = DOMAIN lastOp.before
    /\ \A c \in OpenSessions :
         outbox[c] = Append(lastOp.before[c],
                            [type |-> "config", config |-> CurrentPayload])
    /\ \A c \in DOMAIN outbox \ OpenSessions : outbox[c] = lastOp.before[c]
    /\ clients = lastOp.sessions

\* a broadcast has gone through one open session and one whose socket is not
\* open, with a payload other than the one sent when the sessions began
BroadcastWitness ==
  /\ Broadcast
  /\ \E c \in OpenSessions, d \in DOMAIN lastOp.sessions \ OpenSessions :
        /\ Len(outbox[c]) = 2
        /\ outbox[c][1] # outbox[c][2]
        /\ Len(outbox[d]) = 1

\* the client is disconnected, with one more timer pending than before the
\* latest handler
DisconnectedAndScheduled ==
  /\ ~connected
  /\ ws = 0
  /\ retryTimers = lastOp.timers + 1

\* C31 as stated: after the 'error' handler of a socket, as after its 'close'
\* handler, state.connected is false, state.ws is null and one more reconnect
\* timer is pending.
ErrorDisconnectsLikeClose ==
  lastOp.op \in {"close", "error"} => DisconnectedAndScheduled

\* C31 amended: the 'error' handler clears state.connected and leaves state.ws
\* and the timers as they were; the 'close' handler, which follows it on the
\* same socket, clears state.connected and state.ws and sets the one timer of
\* the pair.
ErrorThenCloseDisconnects ==
  /\ lastOp.op = "error" =>
       ~connected /\ ws = lastOp.held /\ retryTimers = lastOp.timers
  /\ lastOp.op = "close" => DisconnectedAndScheduled

\* the socket held has failed and then closed
ErrorCloseWitness ==
  /\ lastOp.op = "close"
  /\ lastOp.follows = "error"
  /\ lastOp.held = lastOp.sock
  /\ DisconnectedAndScheduled

\* C32: stop() closes the socket held, if any, leaves every other socket as it
\* was, and leaves state.queue and what the sockets have been handed
\* unchanged.
StopKeepsQueue ==
  lastOp.op = "stop" =>
    /\ queue = lastOp.queue
    /\ wire = lastOp.wire
    /\ ws = 0
    /\ \A sock \in DOMAIN readyState :
         IF sock = lastOp.held
         THEN readyState[sock] \notin {"CONNECTING", "OPEN"}
         ELSE readyState[sock] = lastOp.ready[sock]

\* stop() has closed an open socket while events were queued
StopWitness ==
  /\ lastOp.op = "stop"
  /\ lastOp.held # 0
  /\ lastOp.ready[lastOp.held] = "OPEN"
  /\ readyState[lastOp.held] = "CLOSING"
  /\ Len(queue) > 0
  /\ \E i \in 1..Len(queue) : queue[i].type = "log"

\* the step leaves every line state as it was, but for the line of the entry
\* it records
LineStateKept ==
  \A k \in DOMAIN lineStateByUri :
    /\ k \in DOMAIN lineStateByUri'
    /\ \/ lineStateByUri'[k] = lineStateByUri[k]
       \/ lastOp'.op = "log" /\ k = <<lastOp'.resolved, lastOp'.line>>

\* C33: a handler that trims state.logs (addLogEntry on overflow,
\* handleConfigChange when maxLogEntries changes) leaves every line state as
\* it was, with its entry and its count, whether or not the entry is still in
\* state.logs; addLogEntry changes only the line of the entry it records.
TrimKeepsLineState ==
  [][lastOp'.op \in {"log", "config"} => LineStateKept]_vars

\* the entries of state.logs
StoredEntries == { logs[i] : i \in 1..Len(logs) }

\* maxLogEntries was lowered and a line state counted twice holds an entry
\* that is no longer in state.logs, next to entries that are
TrimWitness ==
  /\ lastOp.op = "config"
  /\ Len(ingested) > Len(logs)
  /\ Len(logs) > 0
  /\ \E k \in DOMAIN lineStateByUri :
        /\ lineStateByUri[k].count = 2
        /\ lineStateByUri[k].entry \notin StoredEntries

\* C34: the loop of flushQueue, begun by an open handler, comes to its end.
FlushTerminates == (pc = "flush") ~> (pc = "idle")

\* how often x occurs in a sequence
Times(seq, x) == Cardinality({ i \in 1..Len(seq) : seq[i] = x })

\* how often x has been handed to a socket
RECURSIVE HandedTimes(_, _)
HandedTimes(w, x) ==
  IF w = << >> THEN 0 ELSE Times(Head(w), x) + HandedTimes(Tail(w), x)

\* C35: every payload passed to send() is either once in state.queue and has
\* not been handed to a socket, or has been handed to a socket once and is not
\* in state.queue.
EachPayloadOnce ==
  \A n \in 1..events :
    Times(queue, LogPayload(n)) + HandedTimes(wire, LogPayload(n)) = 1

\* an event queued while no socket was open has been handed to the socket that
\* opened then, and a later event waits in the queue
PayloadWitness ==
  /\ events >= 2
  /\ \E sock \in DOMAIN wire :
        /\ queueAtOpen[sock].opened
        /\ Times(queueAtOpen[sock].queue, LogPayload(1)) = 1
        /\ Times(wire[sock], LogPayload(1)) = 1
  /\ Times(queue, LogPayload(events)) = 1
  /\ pc = "idle"

\* C36: state.connected is true only while state.ws holds a socket.
ConnectedHoldsHandle == connected => ws # 0

\* C37: a message handled for a socket whose session is not in state.clients
\* changes neither state.logs nor state.logSeq.
IngestsOnlyFromLive ==
  (lastOp.op = "message" /\ lastOp.clientId \notin DOMAIN clients)
    => lastOp.touched \cap {"logs", "logSeq"} = {}

\* C38: while the viewer panel is open, the viewer's list of entries is
\* state.logs, in the same order.
ViewerMatchesStore == webviewPanel => viewerLogs = logs

\* ------------------------------------------------ client and server, linked
\* the frame the server parses out of what the client sent
frameOf(payload) ==
  IF payload.type = "hello" THEN HelloFrame("node")
  ELSE LogFrame("log", "log", payload.text, <<"/", "repo", "/", "a.js">>, 1)

\* the server accepts the connection a client socket is opening
accept(sock) ==
  /\ sock \in DOMAIN readyState
  /\ readyState[sock] = "CONNECTING"
  /\ peer[sock] = 0
  /\ connection
  /\ peer' = [peer EXCEPT ![sock] = clientSeq']
  /\ UNCHANGED <<delivered, clientVars, auditVars, serializerVars, correlatorVars, captureVars>>

\* the client socket opens once the server has accepted it
opened(sock) ==
  /\ peer[sock] # 0
  /\ onOpen(sock)
  /\ UNCHANGED <<hostVars, linkVars, auditVars, serializerVars, correlatorVars, captureVars>>

\* ws.on('message') at the server for the next frame of a client socket
deliver(sock) ==
  /\ sock \in DOMAIN wire
  /\ peer[sock] \in sockets
  /\ delivered[sock] < Len(wire[sock])
  /\ handleClientMessage(peer[sock], frameOf(wire[sock][delivered[sock] + 1]))
  /\ delivered' = [delivered EXCEPT ![sock] = @ + 1]
  /\ UNCHANGED <<peer, clientVars, auditVars, serializerVars, correlatorVars, captureVars>>

LinkInit ==
  /\ peer = [sock \in 1..MaxSockets |-> 0]
  /\ delivered = [sock \in 1..MaxSockets |-> 0]

LinkNext ==
  \/ CanConnect(MaxLinkSockets) /\ start("none") /\ UNCHANGED <<hostVars, linkVars, auditVars, serializerVars, correlatorVars, captureVars>>
  \/ stop /\ UNCHANGED <<hostVars, linkVars, auditVars, serializerVars, correlatorVars, captureVars>>
  \/ send /\ UNCHANGED <<hostVars, linkVars, auditVars, serializerVars, correlatorVars, captureVars>>
  \/ \E sock \in DOMAIN readyState : accept(sock)
  \/ \E sock \in DOMAIN readyState : opened(sock)
  \/ flushQueue /\ UNCHANGED <<hostVars, linkVars, auditVars, serializerVars, correlatorVars, captureVars>>
  \/ \E sock \in DOMAIN readyState : onClose(sock) /\ UNCHANGED <<hostVars, linkVars, auditVars, serializerVars, correlatorVars, captureVars>>
  \/ \E sock \in DOMAIN readyState : onError(sock) /\ UNCHANGED <<hostVars, linkVars, auditVars, serializerVars, correlatorVars, captureVars>>
  \/ CanConnect(MaxLinkSockets) /\ retryConnect /\ UNCHANGED <<hostVars, linkVars, auditVars, serializerVars, correlatorVars, captureVars>>
  \/ \E sock \in DOMAIN readyState : deliver(sock)

\* ----------------------------------------------------------- specifications
\* no handler has been observed yet
NoOp == [op |-> "none"]

Init ==
  HostInit /\ ClientInit /\ LinkInit /\ lastOp = NoOp /\ SerializerIdle /\ CorrelatorIdle /\ CaptureIdle

\* the host and the transport idle, the serializer given an object graph
InitGraph ==
  HostInit /\ ClientInit /\ LinkInit /\ lastOp = NoOp /\ GraphInit /\ CorrelatorIdle /\ CaptureIdle

\* the host and the transport idle, the serializer given a string or an array
InitFlat ==
  HostInit /\ ClientInit /\ LinkInit /\ lastOp = NoOp /\ FlatInit /\ CorrelatorIdle /\ CaptureIdle

\* the host and the transport idle, the correlator given a location
InitResolve ==
  HostInit /\ ClientInit /\ LinkInit /\ lastOp = NoOp /\ SerializerIdle /\ CorrelatorInit /\ CaptureIdle

\* the host alone
Spec == Init /\ [][StoreNext]_vars

\* the client alone
SpecClient == Init /\ [][ClientNext]_vars

\* the client alone, its open handler running on once it has begun
SpecFlush ==
  /\ Init
  /\ [][ClientNext]_vars
  /\ WF_vars(flushQueue /\ UNCHANGED <<hostVars, linkVars, auditVars,
                                        serializerVars, correlatorVars,
                                        captureVars>>)

\* the client's connections alone
SpecReconnect == Init /\ [][ReconnectNext]_vars

\* the capture hooks of the client
SpecHooks == Init /\ [][HooksNext]_vars

\* the transport server alone
SpecServer == Init /\ [][ServerNext]_vars

\* the serializer on object graphs
SpecSerialize == InitGraph /\ [][SerializeNext]_vars

\* the serializer on strings and flat arrays
SpecTruncate == InitFlat /\ [][SerializeNext]_vars

\* the sessions of the server, handler by handler
SpecSessions == Init /\ [][SessionsNext]_vars

\* the source correlator on one location
SpecResolve == InitResolve /\ [][ResolveNext]_vars

\* the capture hooks around originals that fail
SpecFailures == Init /\ [][FailuresNext]_vars

\* the timer hooks
SpecTimers == Init /\ [][TimersNext]_vars

\* the client's config
SpecClientConfig == Init /\ [][ClientConfigNext]_vars

\* the log store under payloads of every shape
SpecLevels == Init /\ [][LevelsNext]_vars

\* the config broadcast of the host
SpecBroadcast == Init /\ [][BroadcastNext]_vars

\* the client's connections, handler by handler
SpecDisconnect == Init /\ [][DisconnectNext]_vars

\* the sessions of the server under stops and starts of the server
SpecDropped == Init /\ [][DroppedNext]_vars

\* the viewer panel of the host
SpecViewer == Init /\ [][ViewerNext]_vars

\* the log store trimmed under the line states
SpecTrim == Init /\ [][TrimNext]_vars

\* the inline annotations of the host
SpecInline == Init /\ [][InlineNext]_vars

\* the client connected to the server
SpecLink == Init /\ [][LinkNext]_vars
====
